---- MODULE Spec2Model ----
(***************************************************************************)
(* A model of the task layer of the CNAP business tier                     *)
(* (main_app/tasks.py over the tables of main_app/models.py): account      *)
(* requests and their staff / PI approval, pipeline requests with budget   *)
(* validation and order fulfilment, and the mailbox polling job.           *)
(*                                                                         *)
(* Conventions.  A table is a set of rows, a row is a record whose pk is   *)
(* the auto-increment key.  None (-1) stands for Python's None / SQL NULL  *)
(* in numeric and key columns.  Free text that the code inspects character *)
(* by character (the PI and HAVE_ACCT_NUM answers, NUM_OF_SAMPLE) is a     *)
(* sequence of one-character strings; all other text is a string.  Money   *)
(* is counted in whole dollars.  An operation of the code is an operator   *)
(* from a world (database, outbox, salt counter, requests received by the  *)
(* CNAP server) to the world it leaves behind, together with the exception *)
(* it raised ("none" if it returned).                                      *)
(* There is no transaction around a task, so the rows written before an    *)
(* exception stay written.                                                 *)
(***************************************************************************)
EXTENDS Bags, FiniteSets, Integers, Sequences, TLC

VARIABLES db, sent, nextKey, cnap, lastExc, hist, mailbox, proc

vars == <<db, sent, nextKey, cnap, lastExc, hist, mailbox, proc>>

None == -1

(***************************************************************************)
(* Bounds of the model.                                                    *)
(***************************************************************************)
MaxRequests == 2
MaxStaffApprovals == 2
MaxPIApprovals == 2
MaxPipelineRequests == 2
MaxAmount == 3
MaxStock == 2
NumWorkers == 2
MaxMessages == 2
MaxPolls == 3

(***************************************************************************)
(* Program constants and input domains.                                    *)
(***************************************************************************)
REQUIRED_ACCOUNT_CREATION_KEYS ==
    << "FIRST_NAME", "LAST_NAME", "EMAIL", "PHONE", "PI", "PI_FIRST_NAME",
       "PI_LAST_NAME", "PI_EMAIL", "PI_PHONE", "HARVARD_APPOINTMENT",
       "ORGANIZATION", "DEPARTMENT", "FINANCIAL_CONTACT", "FINANCIAL_EMAIL",
       "ADDRESS", "CITY", "STATE", "POSTAL_CODE", "COUNTRY" >>

REQUIRED_PIPELINE_CREATION_KEYS ==
    { "REGISTERED", "EMAIL", "PI_EMAIL", "HAVE_ACCT_NUM", "ACCT_NUM",
      "NUM_OF_SAMPLE", "PIPELINE", "SEQ_TYPE" }

ACCOUNT_REQUEST == "account request"
PIPELINE_REQUEST == "pipeline request"

QBRC_EMAIL == "qbrc@hsph"

Range(s) == { s[i] : i \in DOMAIN s }

\* the addresses that occur in requests
Emails == { "pi@lab", "post@lab" }
\* the accounts of the facility's staff (is_staff users)
AdminEmails == { "admin@qbrc" }
\* answers to the survey's yes/no questions
YES == << "Y", "e", "s" >>
NO == << "n", "o" >>
YesNoAnswers == { YES, NO }

AccountInfo(e, pi, p, org) ==
    [ k \in Range(REQUIRED_ACCOUNT_CREATION_KEYS) |->
        CASE k = "EMAIL" -> e
          [] k = "PI" -> pi
          [] k = "PI_EMAIL" -> p
          [] k = "ORGANIZATION" -> org
          [] OTHER -> "x" ]

\* the requests considered: a PI's own request names the organization, the
\* request of a lab member leaves it empty
AccountInfos ==
    { AccountInfo(e, pi, p, IF pi = YES THEN "HSPH" ELSE "") :
        e \in Emails, pi \in YesNoAnswers, p \in Emails }

(***************************************************************************)
(* Python helpers.                                                         *)
(***************************************************************************)
LowerChar(c) ==
    CASE c = "Y" -> "y"
      [] c = "N" -> "n"
      [] c = "E" -> "e"
      [] c = "S" -> "s"
      [] c = "O" -> "o"
      [] OTHER -> c

lower(s) == [ i \in 1..Len(s) |-> LowerChar(s[i]) ]

\* the next value of a table's auto-increment key
NextPk(table) ==
    IF table = {} THEN 1
    ELSE (CHOOSE x \in table : \A y \in table : y.pk <= x.pk).pk + 1

\* Model.objects.get(...) over the rows that match: the row, or the
\* exception Django raises
Get(rows) ==
    IF rows = {} THEN [ exc |-> "DoesNotExist", row |-> None ]
    ELSE IF Cardinality(rows) > 1 THEN [ exc |-> "MultipleObjectsReturned", row |-> None ]
    ELSE [ exc |-> "none", row |-> CHOOSE r \in rows : TRUE ]

World == [ db |-> db, sent |-> sent, nextKey |-> nextKey, cnap |-> cnap, exc |-> "none" ]

Raise(w, e) == [ w EXCEPT !.exc = e ]

EmptyDb ==
    [ users |-> {}, groups |-> {}, orgs |-> {}, fcs |-> {}, cnapUsers |-> {},
      pendingUsers |-> {}, payments |-> {}, budgets |-> {}, products |-> {},
      purchases |-> {}, orders |-> {}, processed |-> {} ]

(***************************************************************************)
(* Outbound mail.  A message is recorded by the function that builds it,   *)
(* its recipient and the PI address its text quotes ("" if none).          *)
(***************************************************************************)
send_email(w, kind, recipient, pi) ==
    [ w EXCEPT !.sent = @ (+) SetToBag({ [ kind |-> kind, to |-> recipient, pi |-> pi ] }) ]

RECURSIVE SendToEach(_, _, _)
SendToEach(w, kind, recipients) ==
    IF recipients = {} THEN w
    ELSE LET r == CHOOSE x \in recipients : TRUE
         IN SendToEach(send_email(w, kind, r, ""), kind, recipients \ { r })

notify_admins(w) ==
    SendToEach(w, "notify_admins", { u.email : u \in { x \in w.db.users : x.is_staff } })

handle_exception(w) == notify_admins(w)

send_self_approval_email_to_pi(w, p) ==
    send_email(w, "send_self_approval_email_to_pi", p.info_json["PI_EMAIL"], p.info_json["PI_EMAIL"])

\* the approval link of a pair that has been asked for before is not sent again
send_approval_email_to_pi_once(w, p) ==
    LET m == [ kind |-> "send_approval_email_to_pi", to |-> p.info_json["PI_EMAIL"],
               pi |-> p.info_json["PI_EMAIL"] ]
    IN IF BagIn(m, w.sent) THEN w ELSE send_email(w, m.kind, m.to, m.pi)

send_approval_email_to_pi(w, p) ==
    send_email(w, "send_approval_email_to_pi", p.info_json["PI_EMAIL"], p.info_json["PI_EMAIL"])

send_account_pending_email_to_requester_dropped(w, p) == w

send_account_pending_email_to_requester(w, p) ==
    send_email(w, "send_account_pending_email_to_requester", p.info_json["EMAIL"], p.info_json["PI_EMAIL"])

send_account_confirmed_email_to_requester(w, p) ==
    send_email(w, "send_account_confirmed_email_to_requester", p.info_json["EMAIL"], p.info_json["PI_EMAIL"])

send_account_confirmed_email_to_qbrc(w, p) ==
    send_email(w, "send_account_confirmed_email_to_qbrc", QBRC_EMAIL, p.info_json["PI_EMAIL"])

inform_staff_of_new_account(w, p) ==
    send_email(w, "inform_staff_of_new_account", QBRC_EMAIL, p.info_json["PI_EMAIL"])

inform_user_of_existing_account(w, info_dict) ==
    send_email(w, "inform_user_of_existing_account", QBRC_EMAIL, "")

(***************************************************************************)
(* Row creation, with the constraints the storage layer enforces.          *)
(***************************************************************************)
\* BaseUser.email is unique
create_user(w, email) ==
    IF \E u \in w.db.users : u.email = email
    THEN Raise(w, "IntegrityError")
    ELSE [ w EXCEPT !.db.users = @ \cup
             { [ pk |-> NextPk(w.db.users), email |-> email, is_staff |-> FALSE ] } ]

\* ResearchGroup.pi_email is unique
create_research_group(w, pi_email, org) ==
    IF \E g \in w.db.groups : g.pi_email = pi_email
    THEN Raise(w, "IntegrityError")
    ELSE [ w EXCEPT !.db.groups = @ \cup
             { [ pk |-> NextPk(w.db.groups), pi_email |-> pi_email, organization |-> org ] } ]

\* a CnapUser row for one user, then research_group.add(rg): the model
\* declares no constraint on the pair
create_cnap_user(w, user_pk, rg_pk) ==
    [ w EXCEPT !.db.cnapUsers = @ \cup
        { [ pk |-> NextPk(w.db.cnapUsers), user |-> user_pk, research_group |-> { rg_pk } ] } ]

create_pending_user(w, is_pi, info_dict) ==
    [ w EXCEPT !.db.pendingUsers = @ \cup
        { [ pk |-> NextPk(w.db.pendingUsers), is_pi |-> is_pi,
            info_json |-> info_dict, approval_key |-> None ] } ]

\* CnapUser.objects.get(user=..., research_group=...)
CnapUserGet(w, user_pk, rg_pk) ==
    Get({ c \in w.db.cnapUsers : c.user = user_pk /\ rg_pk \in c.research_group })

\* get_user_model().objects.get(email=...)
UserGet(w, email) == Get({ u \in w.db.users : u.email = email })

(***************************************************************************)
(* Identity lookups.                                                       *)
(***************************************************************************)
\* the pk of the PI's ResearchGroup, or None
check_for_pi_account_unknown(w, info_dict) == None

check_for_pi_account(w, info_dict) ==
    LET r == Get({ g \in w.db.groups : g.pi_email = info_dict["PI_EMAIL"] })
    IN IF r.exc = "DoesNotExist" THEN None ELSE r.row.pk

\* the pk of the base user with the requester's address, or None
determine_if_existing_user(w, info_dict) ==
    LET r == UserGet(w, info_dict["EMAIL"])
    IN IF r.exc = "none" THEN r.row.pk ELSE None

(***************************************************************************)
(* Approval finalizer.                                                     *)
(***************************************************************************)
\* the group alone, without coordinator, user and association
instantiate_new_research_group_bare(w, info_dict) ==
    [ w |-> create_research_group(w, info_dict["PI_EMAIL"], None), rg |-> NextPk(w.db.groups) ]

\* the world it leaves and the pk of the new group (None if it raised)
instantiate_new_research_group(w, info_dict) ==
    LET named == info_dict["ORGANIZATION"] # ""
        org == IF named THEN NextPk(w.db.orgs) ELSE None
        w1 == IF named
              THEN [ w EXCEPT !.db.orgs = @ \cup
                       { [ pk |-> NextPk(w.db.orgs), name |-> info_dict["ORGANIZATION"] ] } ]
              ELSE w
        rg == NextPk(w1.db.groups)
        w2 == create_research_group(w1, info_dict["PI_EMAIL"], org)
        w3 == [ w2 EXCEPT !.db.fcs = @ \cup
                  { [ pk |-> NextPk(w2.db.fcs), research_group |-> rg ] } ]
        pi_user_obj == NextPk(w3.db.users)
        w4 == create_user(w3, info_dict["PI_EMAIL"])
        w5 == create_cnap_user(w4, pi_user_obj, rg)
    IN IF w2.exc # "none" THEN [ w |-> w2, rg |-> None ]
       ELSE IF w4.exc # "none" THEN [ w |-> w4, rg |-> None ]
       ELSE [ w |-> w5, rg |-> rg ]

\* the try block of the association: is the pair already there?
existing_association_unseen(w, user_pk, rg_pk) == [ exc |-> "DoesNotExist", row |-> None ]

existing_association(w, user_pk, rg_pk) == CnapUserGet(w, user_pk, rg_pk)

\* a base user is created without looking for one
get_or_create_requester_unsought(w, info_dict) ==
    [ w |-> create_user(w, info_dict["EMAIL"]), user_obj |-> NextPk(w.db.users) ]

\* the base user of the requester, found or created: the world and its pk
get_or_create_requester(w, info_dict) ==
    LET found == UserGet(w, info_dict["EMAIL"])
    IN IF found.exc = "none" THEN [ w |-> w, user_obj |-> found.row.pk ]
       ELSE [ w |-> create_user(w, info_dict["EMAIL"]), user_obj |-> NextPk(w.db.users) ]

\* the request is deleted once its association is made
confirm_association_and_delete(w, p, user_obj, rg) ==
    [ send_account_confirmed_email_to_qbrc(
        send_account_confirmed_email_to_requester(create_cnap_user(w, user_obj, rg), p), p)
      EXCEPT !.db.pendingUsers = @ \ { p } ]

\* the except branch of the association: the new pair and its two messages
confirm_association(w, p, user_obj, rg) ==
    send_account_confirmed_email_to_qbrc(
      send_account_confirmed_email_to_requester(create_cnap_user(w, user_obj, rg), p), p)

\* the branch of a request made by someone other than the PI
associate_requester(w, p, rg) ==
    LET u == get_or_create_requester(w, p.info_json)
        a == existing_association(u.w, u.user_obj, rg)
    IN IF u.w.exc # "none" THEN u.w
       ELSE IF a.exc = "none" THEN u.w
       ELSE IF a.exc = "DoesNotExist" THEN confirm_association(u.w, p, u.user_obj, rg)
       ELSE Raise(u.w, a.exc)

pi_approve_pending_user(w, pending_user_pk) ==
    LET got == Get({ x \in w.db.pendingUsers : x.pk = pending_user_pk })
        p == got.row
        info_dict == p.info_json
        rg0 == check_for_pi_account(w, info_dict)
        inst == IF rg0 = None
                THEN instantiate_new_research_group(w, info_dict)
                ELSE [ w |-> w, rg |-> rg0 ]
    IN IF got.exc # "none" THEN Raise(w, got.exc)
       ELSE IF inst.w.exc # "none" THEN inst.w
       ELSE IF ~ p.is_pi THEN associate_requester(inst.w, p, inst.rg)
       ELSE inst.w

add_approval_key_to_pending_user_skipped(w, pk) == w

\* a key that is there is kept
add_approval_key_to_pending_user_if_none(w, pk) ==
    [ w EXCEPT !.db.pendingUsers =
                 { IF x.pk = pk /\ x.approval_key = None
                   THEN [ x EXCEPT !.approval_key = w.nextKey ] ELSE x : x \in @ },
               !.nextKey = @ + 1 ]

\* a fresh salt makes a fresh key
add_approval_key_to_pending_user(w, pk) ==
    [ w EXCEPT !.db.pendingUsers =
                 { IF x.pk = pk THEN [ x EXCEPT !.approval_key = w.nextKey ] ELSE x : x \in @ },
               !.nextKey = @ + 1 ]

PendingUserByPk(w, pk) == CHOOSE x \in w.db.pendingUsers : x.pk = pk

\* the staff's approval finalizes the account as well
staff_approve_pending_user_and_confirm(w, pending_user_pk) ==
    LET got == Get({ x \in w.db.pendingUsers : x.pk = pending_user_pk })
    IN IF got.exc # "none" THEN Raise(w, got.exc)
       ELSE pi_approve_pending_user(add_approval_key_to_pending_user(w, pending_user_pk),
                                    pending_user_pk)

\* every approved request is treated as the request of a lab member
staff_approve_pending_user_as_member(w, pending_user_pk) ==
    LET got == Get({ x \in w.db.pendingUsers : x.pk = pending_user_pk })
        w1 == add_approval_key_to_pending_user(w, pending_user_pk)
        p == PendingUserByPk(w1, pending_user_pk)
    IN IF got.exc # "none" THEN Raise(w, got.exc)
       ELSE send_account_pending_email_to_requester(send_approval_email_to_pi(w1, p), p)

staff_approve_pending_user(w, pending_user_pk) ==
    LET got == Get({ x \in w.db.pendingUsers : x.pk = pending_user_pk })
        w1 == add_approval_key_to_pending_user(w, pending_user_pk)
        p == PendingUserByPk(w1, pending_user_pk)
    IN IF got.exc # "none" THEN Raise(w, got.exc)
       ELSE IF got.row.is_pi THEN send_self_approval_email_to_pi(w1, p)
       ELSE send_account_pending_email_to_requester(send_approval_email_to_pi(w1, p), p)

(***************************************************************************)
(* Account request state machine.                                          *)
(***************************************************************************)
handle_unknown_pi_account_unannounced(w, info_dict, is_pi_request) ==
    create_pending_user(w, is_pi_request, info_dict)

handle_unknown_pi_account(w, info_dict, is_pi_request) ==
    LET w1 == create_pending_user(w, is_pi_request, info_dict)
    IN inform_staff_of_new_account(w1, PendingUserByPk(w1, NextPk(w.db.pendingUsers)))

handle_account_request_for_existing_user_unassociated(w, info_dict, existing_user, pi_request, research_group) ==
    IF research_group = None
    THEN handle_unknown_pi_account(w, info_dict, pi_request)
    ELSE LET pk == NextPk(w.db.pendingUsers)
             w1 == add_approval_key_to_pending_user(create_pending_user(w, FALSE, info_dict), pk)
         IN send_approval_email_to_pi(w1, PendingUserByPk(w1, pk))

handle_account_request_for_existing_user(w, info_dict, existing_user, pi_request, research_group) ==
    IF research_group = None
    THEN handle_unknown_pi_account(w, info_dict, pi_request)
    ELSE LET c == CnapUserGet(w, existing_user, research_group)
             pk == NextPk(w.db.pendingUsers)
             w1 == add_approval_key_to_pending_user(create_pending_user(w, FALSE, info_dict), pk)
         IN IF c.exc = "none" THEN inform_user_of_existing_account(w, info_dict)
            ELSE IF c.exc = "DoesNotExist"
                 THEN send_approval_email_to_pi(w1, PendingUserByPk(w1, pk))
            ELSE Raise(w, c.exc)

handle_account_request_for_new_user_by_staff(w, info_dict, pi_request, research_group) ==
    handle_unknown_pi_account(w, info_dict, pi_request)

handle_account_request_for_new_user(w, info_dict, pi_request, research_group) ==
    IF research_group = None
    THEN handle_unknown_pi_account(w, info_dict, pi_request)
    ELSE LET pk == NextPk(w.db.pendingUsers)
             w1 == add_approval_key_to_pending_user(create_pending_user(w, FALSE, info_dict), pk)
             p == PendingUserByPk(w1, pk)
         IN send_account_pending_email_to_requester(send_approval_email_to_pi(w1, p), p)

handle_account_request_email_unreminded(w, info_dict) ==
    LET existing_user == determine_if_existing_user(w, info_dict)
        is_pi_str == info_dict["PI"]
        pi_request == lower(is_pi_str)[1] = "y"
        research_group == check_for_pi_account(w, info_dict)
    IN IF Len(is_pi_str) = 0 THEN Raise(w, "IndexError")
       ELSE IF existing_user # None
            THEN handle_account_request_for_existing_user(w, info_dict, existing_user,
                                                          pi_request, research_group)
       ELSE handle_account_request_for_new_user(w, info_dict, pi_request, research_group)

handle_account_request_email(w, info_dict) ==
    LET existing_user == determine_if_existing_user(w, info_dict)
        is_pi_str == info_dict["PI"]
        pi_request == lower(is_pi_str)[1] = "y"
        research_group == check_for_pi_account(w, info_dict)
    IN IF Len(is_pi_str) = 0 THEN Raise(w, "IndexError")
       ELSE IF pi_request /\ research_group # None
            THEN inform_user_of_existing_account(w, info_dict)
       ELSE IF existing_user # None
            THEN handle_account_request_for_existing_user(w, info_dict, existing_user,
                                                          pi_request, research_group)
       ELSE handle_account_request_for_new_user(w, info_dict, pi_request, research_group)

(***************************************************************************)
(* Pipeline requests: budget validation and order fulfilment.              *)
(***************************************************************************)
DigitValue(c) ==
    CASE c = "0" -> 0 [] c = "1" -> 1 [] c = "2" -> 2 [] c = "3" -> 3
      [] c = "4" -> 4 [] c = "5" -> 5 [] c = "6" -> 6 [] c = "7" -> 7
      [] c = "8" -> 8 [] c = "9" -> 9 [] OTHER -> None

RECURSIVE DigitsValue(_)
DigitsValue(s) ==
    IF Len(s) = 0 THEN 0
    ELSE 10 * DigitsValue(SubSeq(s, 1, Len(s) - 1)) + DigitValue(s[Len(s)])

AllDigits(s) == Len(s) > 0 /\ \A i \in 1..Len(s) : DigitValue(s[i]) # None

\* Python's int() of a string: an optional sign and decimal digits
int(s) ==
    IF AllDigits(s) THEN [ exc |-> "none", val |-> DigitsValue(s) ]
    ELSE IF Len(s) > 1 /\ s[1] = "-" /\ AllDigits(Tail(s))
         THEN [ exc |-> "none", val |-> 0 - DigitsValue(Tail(s)) ]
    ELSE [ exc |-> "ValueError", val |-> 0 ]

\* Python's truth value of a nullable number
Truthy(x) == x # None /\ x # 0

ProductGet(w, name) == Get({ x \in w.db.products : x.name = name })

GroupGet(w, pi_email) == Get({ g \in w.db.groups : g.pi_email = pi_email })

\* the code of the request is not compared
PaymentGet_any_code(w, code) == Get(w.db.payments)

PaymentGet(w, code) == Get({ x \in w.db.payments : x.code = code })

BudgetGet(w, payment_pk) == Get({ b \in w.db.budgets : b.payment = payment_pk })

ask_requester_to_register_first(w, email) ==
    send_email(w, "ask_requester_to_register_first", email, "")

ask_pipeline_requester_to_register_lab(w, info_dict) ==
    send_email(w, "ask_pipeline_requester_to_register_lab", info_dict["EMAIL"], info_dict["PI_EMAIL"])

ask_requester_to_associate_with_pi_first(w, info_dict) ==
    send_email(w, "ask_requester_to_associate_with_pi_first", info_dict["EMAIL"], info_dict["PI_EMAIL"])

inform_qbrc_of_request_without_payment_number(w, info_dict) ==
    send_email(w, "inform_qbrc_of_request_without_payment_number", QBRC_EMAIL, info_dict["PI_EMAIL"])

inform_qbrc_of_bad_pipeline_request_unsent(w, info_dict) == w

inform_qbrc_of_bad_pipeline_request(w, info_dict) ==
    send_email(w, "inform_qbrc_of_bad_pipeline_request", QBRC_EMAIL, info_dict["PI_EMAIL"])

send_inventory_alert_to_requester(w, info_dict) ==
    send_email(w, "send_inventory_alert_to_requester", info_dict["EMAIL"], "")

send_inventory_alert_to_qbrc(w, info_dict) ==
    send_email(w, "send_inventory_alert_to_qbrc", QBRC_EMAIL, info_dict["PI_EMAIL"])

general_alert_to_requester(w, info_dict) ==
    send_email(w, "general_alert_to_requester", info_dict["EMAIL"], "")

ask_user_to_resubmit_payment_info(w, info_dict) ==
    send_email(w, "ask_user_to_resubmit_payment_info", info_dict["EMAIL"], "")

inform_user_of_invalid_order(w, info_dict) ==
    send_email(w, "inform_user_of_invalid_order", info_dict["EMAIL"], "")

\* the world, the exception, and (quantity_ordered, unit_cost) if it returned
calculate_total_purchase_keeping_one(w, info_dict) ==
    LET quantity_ordered == int(info_dict["NUM_OF_SAMPLE"])
        product == ProductGet(w, info_dict["PIPELINE"])
    IN IF quantity_ordered.exc # "none"
       THEN [ w |-> Raise(w, quantity_ordered.exc), qty |-> 0, unit |-> 0 ]
       ELSE IF product.exc = "DoesNotExist"
            THEN [ w |-> Raise(inform_qbrc_of_bad_pipeline_request(w, info_dict),
                               "ProductDoesNotExistException"),
                   qty |-> 0, unit |-> 0 ]
       ELSE IF product.exc # "none"
            THEN [ w |-> Raise(w, product.exc), qty |-> 0, unit |-> 0 ]
       ELSE IF product.row.is_quantity_limited /\ quantity_ordered.val >= product.row.quantity
            THEN [ w |-> Raise(w, "InventoryException"), qty |-> 0, unit |-> 0 ]
       ELSE [ w |-> w, qty |-> quantity_ordered.val, unit |-> product.row.unit_cost ]

calculate_total_purchase(w, info_dict) ==
    LET quantity_ordered == int(info_dict["NUM_OF_SAMPLE"])
        product == ProductGet(w, info_dict["PIPELINE"])
    IN IF quantity_ordered.exc # "none"
       THEN [ w |-> Raise(w, quantity_ordered.exc), qty |-> 0, unit |-> 0 ]
       ELSE IF product.exc = "DoesNotExist"
            THEN [ w |-> Raise(inform_qbrc_of_bad_pipeline_request(w, info_dict),
                               "ProductDoesNotExistException"),
                   qty |-> 0, unit |-> 0 ]
       ELSE IF product.exc # "none"
            THEN [ w |-> Raise(w, product.exc), qty |-> 0, unit |-> 0 ]
       ELSE IF product.row.is_quantity_limited /\ quantity_ordered.val > product.row.quantity
            THEN [ w |-> Raise(w, "InventoryException"), qty |-> 0, unit |-> 0 ]
       ELSE [ w |-> w, qty |-> quantity_ordered.val, unit |-> product.row.unit_cost ]

handle_no_payment_number(w, info_dict) ==
    LET c == calculate_total_purchase(w, info_dict)
        caught == [ c.w EXCEPT !.exc = "none" ]
    IN IF c.w.exc = "InventoryException"
       THEN send_inventory_alert_to_qbrc(send_inventory_alert_to_requester(caught, info_dict), info_dict)
       ELSE IF c.w.exc = "ProductDoesNotExistException"
            THEN general_alert_to_requester(caught, info_dict)
       ELSE IF c.w.exc # "none" THEN c.w
       ELSE send_email(c.w, "handle_no_payment_number", info_dict["EMAIL"], "")

create_budget(w, payment_pk) ==
    [ w EXCEPT !.db.budgets = @ \cup
        { [ pk |-> NextPk(w.db.budgets), payment |-> payment_pk, current_sum |-> 0 ] } ]

is_limited_payment_always(payment_amount) == TRUE

\* the if on the payment's amount
is_limited_payment(payment_amount) == Truthy(payment_amount)

\* the comparison of the new sum with the payment's amount
exceeds_payment(new_sum, payment_amount) == new_sum > payment_amount

\* the Budget of the payment, created if there is none: the world and the
\* row the caller holds
load_budget(w, payment_ref) ==
    LET got == BudgetGet(w, payment_ref.pk)
    IN IF got.exc = "DoesNotExist"
       THEN [ w |-> create_budget(w, payment_ref.pk),
              budget |-> [ pk |-> NextPk(w.db.budgets), payment |-> payment_ref.pk, current_sum |-> 0 ] ]
       ELSE IF got.exc # "none" THEN [ w |-> Raise(w, got.exc), budget |-> got.row ]
       ELSE [ w |-> w, budget |-> got.row ]

\* budget.save() writes the row the caller holds over the stored one
save_budget(w, budget) ==
    [ w EXCEPT !.db.budgets = { IF b.pk = budget.pk THEN budget ELSE b : b \in @ } ]

\* the charge of total_cost against the payment, given the Budget row read
\* before: the world and the bool of the returned tuple
charge_budget(w, budget, total_cost, payment_ref) ==
    LET payment_amount == payment_ref.payment_amount
        current_charges_against_payment == budget.current_sum
        new_sum == current_charges_against_payment + total_cost
    IN IF is_limited_payment(payment_amount)
       THEN IF exceeds_payment(new_sum, payment_amount)
            THEN [ w |-> w, ok |-> FALSE ]
            ELSE [ w |-> save_budget(w, [ budget EXCEPT !.current_sum = new_sum ]), ok |-> TRUE ]
       ELSE [ w |-> w, ok |-> TRUE ]

\* the world and the bool of the returned tuple
check_that_purchase_is_valid_against_payment(w, info_dict, payment_ref) ==
    LET c == calculate_total_purchase(w, info_dict)
        caught == [ c.w EXCEPT !.exc = "none" ]
        total_cost == c.qty * c.unit
        b == load_budget(c.w, payment_ref)
    IN IF c.w.exc = "InventoryException"
       THEN [ w |-> send_inventory_alert_to_qbrc(caught, info_dict), ok |-> FALSE ]
       ELSE IF c.w.exc = "ProductDoesNotExistException"
            THEN [ w |-> caught, ok |-> FALSE ]
       ELSE IF c.w.exc # "none" THEN [ w |-> c.w, ok |-> FALSE ]
       ELSE IF b.w.exc # "none" THEN [ w |-> b.w, ok |-> FALSE ]
       ELSE charge_budget(b.w, b.budget, total_cost, payment_ref)

\* status is the answer the CNAP server gives to a project-creation request
\* it receives; the name order is not bound where the request data is built
create_project_on_cnap_posting(w, order_pk, status) ==
    LET w1 == [ w EXCEPT !.cnap = @ \cup { [ order |-> order_pk, status |-> status ] } ]
    IN IF status # 200 THEN handle_exception(w1) ELSE w1

create_project_on_cnap(w, order_pk, status) == Raise(w, "NameError")

\* the project is asked for without a Purchase and an Order being stored
fill_order_unrecorded(w, info_dict, payment_ref, status) ==
    create_project_on_cnap(w, NextPk(w.db.orders), status)

\* the stock is lowered by a database that does not hold the column at zero
\* or above
fill_order_unconstrained(w, info_dict, payment_ref, status) ==
    [ w EXCEPT !.db.products =
        { IF x.name = info_dict["PIPELINE"] /\ x.is_quantity_limited
          THEN [ x EXCEPT !.quantity = @ - int(info_dict["NUM_OF_SAMPLE"]).val ]
          ELSE x : x \in @ } ]

fill_order(w, info_dict, payment_ref, status) ==
    LET quantity_ordered == int(info_dict["NUM_OF_SAMPLE"])
        product == ProductGet(w, info_dict["PIPELINE"])
        base_user == UserGet(w, info_dict["EMAIL"])
        rg == GroupGet(w, info_dict["PI_EMAIL"])
        cnap_user == CnapUserGet(w, base_user.row.pk, rg.row.pk)
        purchase == NextPk(w.db.purchases)
        order_obj == NextPk(w.db.orders)
        w1 == [ w EXCEPT !.db.purchases = @ \cup { [ pk |-> purchase, user |-> cnap_user.row.pk ] } ]
        w2 == [ w1 EXCEPT !.db.orders = @ \cup
                  { [ pk |-> order_obj, product |-> product.row.pk, purchase |-> purchase,
                      quantity |-> quantity_ordered.val, order_filled |-> FALSE ] } ]
        new_quantity == product.row.quantity - quantity_ordered.val
        w3 == IF product.row.is_quantity_limited
              THEN [ w2 EXCEPT !.db.products =
                       { IF x.pk = product.row.pk THEN [ x EXCEPT !.quantity = new_quantity ] ELSE x
                         : x \in @ } ]
              ELSE w2
        w4 == create_project_on_cnap(w3, order_obj, status)
    IN IF quantity_ordered.exc # "none" THEN Raise(w, quantity_ordered.exc)
       ELSE IF product.exc # "none" THEN Raise(w, product.exc)
       ELSE IF base_user.exc # "none" THEN Raise(w, base_user.exc)
       ELSE IF rg.exc # "none" THEN Raise(w, rg.exc)
       ELSE IF cnap_user.exc # "none" THEN Raise(w, cnap_user.exc)
       \* Order.quantity and Product.quantity are PositiveIntegerFields
       ELSE IF quantity_ordered.val < 0 THEN Raise(w1, "IntegrityError")
       ELSE IF product.row.is_quantity_limited /\ new_quantity < 0 THEN Raise(w2, "IntegrityError")
       ELSE IF w4.exc # "none" THEN w4
       ELSE [ w4 EXCEPT !.db.orders =
                { IF o.pk = order_obj THEN [ o EXCEPT !.order_filled = TRUE ] ELSE o : o \in @ } ]

handle_pipeline_request_email(w, info_dict, status) ==
    LET base_user == UserGet(w, info_dict["EMAIL"])
        rg == GroupGet(w, info_dict["PI_EMAIL"])
        cnap_user == CnapUserGet(w, base_user.row.pk, rg.row.pk)
        have == info_dict["HAVE_ACCT_NUM"]
        payment_ref == PaymentGet(w, info_dict["ACCT_NUM"])
        v == check_that_purchase_is_valid_against_payment(w, info_dict, payment_ref.row)
        quoted == handle_no_payment_number(w, info_dict)
    IN IF base_user.exc = "DoesNotExist"
       THEN ask_requester_to_register_first(w, info_dict["EMAIL"])
       ELSE IF base_user.exc # "none" THEN Raise(w, base_user.exc)
       ELSE IF rg.exc = "DoesNotExist"
            THEN ask_pipeline_requester_to_register_lab(w, info_dict)
       ELSE IF cnap_user.exc = "DoesNotExist"
            THEN ask_requester_to_associate_with_pi_first(w, info_dict)
       ELSE IF cnap_user.exc # "none" THEN Raise(w, cnap_user.exc)
       ELSE IF Len(have) = 0 THEN Raise(w, "IndexError")
       ELSE IF lower(have)[1] = "n"
            THEN IF quoted.exc # "none" THEN quoted
                 ELSE inform_qbrc_of_request_without_payment_number(quoted, info_dict)
       ELSE IF payment_ref.exc = "DoesNotExist"
            THEN ask_user_to_resubmit_payment_info(w, info_dict)
       ELSE IF payment_ref.exc # "none" THEN Raise(w, payment_ref.exc)
       ELSE IF v.w.exc # "none" THEN v.w
       ELSE IF v.ok THEN fill_order(v.w, info_dict, payment_ref.row, status)
       ELSE inform_user_of_invalid_order(v.w, info_dict)

(***************************************************************************)
(* The account flow, one request or approval at a time.                    *)
(***************************************************************************)
NoCheck == [ reached |-> FALSE, prior |-> 0, cost |-> 0, amount |-> None, accepted |-> FALSE ]

\* what has been run so far: the numbers of requests and approvals, the PI
\* addresses groups were instantiated for, the PendingUsers approved by a
\* PI, the last budget validation, the current_sum before the first
\* request, the number of polling runs, the UIDs handed to get_email_body
\* and to the business logic (once per time), the UIDs whose business logic
\* raised and the UIDs of account requests a run found already marked
NoHist ==
    [ requests |-> 0, staffRuns |-> 0, piRuns |-> 0,
      instantiated |-> EmptyBag, piApproved |-> EmptyBag, check |-> NoCheck,
      opening |-> 0, polls |-> 0, handled |-> EmptyBag, began |-> EmptyBag,
      raised |-> {}, skipped |-> {} ]

Commit(w) ==
    \E v \in { w } :
        /\ db' = v.db
        /\ sent' = v.sent
        /\ nextKey' = v.nextKey
        /\ cnap' = v.cnap
        /\ lastExc' = v.exc

\* the facility's database before the first request: no rows but the
\* accounts of its staff
Init ==
    /\ \E staff \in SUBSET AdminEmails :
         db = [ EmptyDb EXCEPT !.users =
                  { [ pk |-> 1, email |-> e, is_staff |-> TRUE ] : e \in staff } ]
    /\ sent = EmptyBag
    /\ nextKey = 1
    /\ cnap = {}
    /\ lastExc = "none"
    /\ hist = NoHist
    /\ mailbox = {}
    /\ proc = << >>

\* a parsed account request reaches the business logic
AccountRequest ==
    /\ hist.requests < MaxRequests
    /\ \E info_dict \in AccountInfos :
         Commit(handle_account_request_email(World, info_dict))
    /\ hist' = [ hist EXCEPT !.requests = @ + 1 ]
    /\ UNCHANGED <<mailbox, proc>>

\* StaffApprovalView.post by a staff member, and the task it starts
StaffApproval ==
    /\ hist.staffRuns < MaxStaffApprovals
    /\ \E p \in db.pendingUsers :
         Commit(staff_approve_pending_user(World, p.pk))
    /\ hist' = [ hist EXCEPT !.staffRuns = @ + 1 ]
    /\ UNCHANGED <<mailbox, proc>>

\* PIApprovalView.get with the key of a PendingUser, and the task it starts
PIApproval ==
    /\ hist.piRuns < MaxPIApprovals
    /\ \E p \in db.pendingUsers :
         /\ p.approval_key # None
         /\ Cardinality({ x \in db.pendingUsers : x.approval_key = p.approval_key }) = 1
         /\ Commit(pi_approve_pending_user(World, p.pk))
         /\ hist' = [ hist EXCEPT
              !.piRuns = @ + 1,
              !.piApproved = @ (+) SetToBag({ p.pk }),
              !.instantiated =
                  IF check_for_pi_account(World, p.info_json) = None
                  THEN @ (+) SetToBag({ p.info_json["PI_EMAIL"] })
                  ELSE @ ]
    /\ UNCHANGED <<mailbox, proc>>

Next == AccountRequest \/ StaffApproval \/ PIApproval

Spec == Init /\ [][Next]_vars

(***************************************************************************)
(* Properties of the account flow.                                         *)
(***************************************************************************)
AssociationsOf(user_pk, rg_pk) ==
    { c \in db.cnapUsers : c.user = user_pk /\ rg_pk \in c.research_group }

\* the requester of p is a base user associated with the group of p's PI
Associated(d, e, pi) ==
    \E u \in d.users, g \in d.groups, c \in d.cnapUsers :
        /\ u.email = e
        /\ g.pi_email = pi
        /\ c.user = u.pk
        /\ g.pk \in c.research_group

\* the PendingUsers of requests by e, not flagged as the PI's own, naming pi
NonSelfPending(e, pi) ==
    { p \in db.pendingUsers :
        ~ p.is_pi /\ p.info_json["EMAIL"] = e /\ p.info_json["PI_EMAIL"] = pi }

PIApprovalsOf(p) == CopiesIn(p.pk, hist.piApproved)

\* two PI approvals have run for PendingUsers of the pair (e, pi)
ApprovedTwice(e, pi) ==
    \/ \E p \in NonSelfPending(e, pi) : PIApprovalsOf(p) >= 2
    \/ \E p1, p2 \in NonSelfPending(e, pi) :
         p1.pk # p2.pk /\ PIApprovalsOf(p1) >= 1 /\ PIApprovalsOf(p2) >= 1

Confirmed(e, pi) ==
    CopiesIn([ kind |-> "send_account_confirmed_email_to_requester", to |-> e, pi |-> pi ], sent)

\* C1: after any sequence of account requests, staff approvals and PI
\* approvals run one after the other, no (base user, research group) pair
\* has more than one CnapUser association.
C1_OneAssociationPerPair ==
    \A u \in db.users, g \in db.groups :
        Cardinality(AssociationsOf(u.pk, g.pk)) <= 1

\* two PendingUsers of one pair were both approved and the pair is associated
C1_Witness ==
    \E e \in Emails, pi \in Emails :
        /\ \E p1, p2 \in NonSelfPending(e, pi) :
             p1.pk # p2.pk /\ PIApprovalsOf(p1) >= 1 /\ PIApprovalsOf(p2) >= 1
        /\ Associated(db, e, pi)

\* the step is a run of pi_approve_pending_user for p
IsPIApprovalOf(p) == CopiesIn(p.pk, hist'.piApproved) > CopiesIn(p.pk, hist.piApproved)

\* C2 as stated: two PI approvals of PendingUsers of one (requester email,
\* PI email) pair send the 'confirmed' notification to the requester
\* exactly once.
C2_ExactlyOnceAsStated ==
    \A e \in Emails, pi \in Emails :
        ApprovedTwice(e, pi) => Confirmed(e, pi) = 1

\* C2, amended: a PI approval of a non-self PendingUser whose (user, group)
\* association exists changes no row and sends nothing; the 'confirmed'
\* notification of a pair is sent at most once, and exactly once after two
\* approvals when the requester's address differs from the PI's.
C2_IdempotentApproval ==
    [][ /\ \A p \in db.pendingUsers :
             ( IsPIApprovalOf(p) /\ ~ p.is_pi
               /\ Associated(db, p.info_json["EMAIL"], p.info_json["PI_EMAIL"]) )
             => ( db' = db /\ sent' = sent )
        /\ \A e \in Emails, pi \in Emails :
             /\ Confirmed(e, pi)' <= 1
             /\ ( ApprovedTwice(e, pi)' /\ e # pi ) => Confirmed(e, pi)' = 1 ]_vars

\* the second approval of a pair has run, and the one notification is out
C2_Witness ==
    \E e \in Emails, pi \in Emails :
        e # pi /\ ApprovedTwice(e, pi) /\ Confirmed(e, pi) = 1 /\ lastExc = "none"

\* C8: every ResearchGroup the finalizer has created has its
\* FinancialCoordinator, a base User with the PI's address and a CnapUser
\* associating that User with the group.
C8_GroupIsComplete ==
    \A g \in db.groups :
        /\ \E fc \in db.fcs : fc.research_group = g.pk
        /\ \E u \in db.users :
             /\ u.email = g.pi_email
             /\ AssociationsOf(u.pk, g.pk) # {}

\* C9: one ResearchGroup per PI address at most, and the instantiation of a
\* group has run at most once for a PI address.
C9_OneGroupPerPI ==
    \A e \in Emails :
        /\ Cardinality({ g \in db.groups : g.pi_email = e }) <= 1
        /\ CopiesIn(e, hist.instantiated) <= 1

\* a PI address with its group, after two approvals of PendingUsers naming it
C9_Witness ==
    \E e \in Emails :
        /\ \E g \in db.groups : g.pi_email = e
        /\ CopiesIn(e, hist.instantiated) = 1
        /\ \E p1, p2 \in { p \in db.pendingUsers : p.info_json["PI_EMAIL"] = e } :
             \/ p1.pk # p2.pk /\ PIApprovalsOf(p1) >= 1 /\ PIApprovalsOf(p2) >= 1
             \/ PIApprovalsOf(p1) >= 2

\* the messages a staff approval of p sends
StaffApprovalMail(p) ==
    IF p.is_pi
    THEN SetToBag({ [ kind |-> "send_self_approval_email_to_pi",
                      to |-> p.info_json["PI_EMAIL"], pi |-> p.info_json["PI_EMAIL"] ] })
    ELSE SetToBag({ [ kind |-> "send_approval_email_to_pi",
                      to |-> p.info_json["PI_EMAIL"], pi |-> p.info_json["PI_EMAIL"] ] })
         (+) SetToBag({ [ kind |-> "send_account_pending_email_to_requester",
                          to |-> p.info_json["EMAIL"], pi |-> p.info_json["PI_EMAIL"] ] })

\* C22: a staff approval gives one PendingUser an approval key that is not
\* null (and that no PendingUser had before) and changes no other row; for
\* a PendingUser with is_pi it sends one self-approval message to the PI
\* and nothing else, for any other it sends one approval request to the PI
\* and one pending notice to the requester and nothing else.
C22_StaffApprovalNotifies ==
    [][ hist'.staffRuns = hist.staffRuns + 1 =>
          \E p \in db.pendingUsers, key \in 1..nextKey :
              /\ key # None
              /\ \A x \in db.pendingUsers : x.approval_key # key
              /\ db' = [ db EXCEPT !.pendingUsers =
                           ( @ \ { p } ) \cup { [ p EXCEPT !.approval_key = key ] } ]
              /\ sent' (-) sent = StaffApprovalMail(p)
              /\ sent \sqsubseteq sent'
              /\ lastExc' = "none" ]_vars

\* the staff has approved the request of a PI and that of a lab member
\* while no lab was known
C22_Witness ==
    /\ hist.staffRuns = 2
    /\ db.groups = {}
    /\ \E p, q \in db.pendingUsers :
         /\ p.is_pi /\ p.approval_key # None
         /\ ~ q.is_pi /\ q.approval_key # None
         /\ BagCardinality(StaffApprovalMail(p) (+) StaffApprovalMail(q)) = 3
         /\ ( StaffApprovalMail(p) (+) StaffApprovalMail(q) ) \sqsubseteq sent

\* the messages of a kind sent so far
SentOfKind(kind) ==
    BagCardinality([ m \in { x \in BagToSet(sent) : x.kind = kind } |-> sent[m] ])

\* C23: where the first request the facility receives is a PI's own, it
\* leaves exactly one PendingUser and one notice to the staff; the staff
\* approval sends the PI one message; after the PI approval there are
\* exactly one ResearchGroup, one FinancialCoordinator of it, one base User
\* (beside the staff accounts) with the PI's address and one CnapUser that
\* associates the two.
C23_SelfRegistration ==
    \A p \in db.pendingUsers :
        ( hist.requests = 1 /\ p.is_pi ) =>
            /\ db.pendingUsers = { p }
            /\ SentOfKind("inform_staff_of_new_account") = 1
            /\ hist.staffRuns = 0 =>
                 /\ BagCardinality(sent) = 1
                 /\ p.approval_key = None
                 /\ hist.piRuns = 0
            /\ hist.staffRuns = 1 =>
                 /\ SentOfKind("send_self_approval_email_to_pi") = 1
                 /\ CopiesIn([ kind |-> "send_self_approval_email_to_pi",
                               to |-> p.info_json["PI_EMAIL"], pi |-> p.info_json["PI_EMAIL"] ], sent) = 1
                 /\ BagCardinality(sent) = 2
            /\ hist.piRuns = 0 =>
                 /\ db.groups = {} /\ db.fcs = {} /\ db.cnapUsers = {}
                 /\ { u \in db.users : ~ u.is_staff } = {}
            /\ ( hist.staffRuns = 1 /\ hist.piRuns >= 1 ) =>
                 /\ Cardinality(db.groups) = 1
                 /\ Cardinality(db.fcs) = 1
                 /\ Cardinality({ u \in db.users : ~ u.is_staff }) = 1
                 /\ Cardinality(db.cnapUsers) = 1
                 /\ \E g \in db.groups, fc \in db.fcs, u \in db.users, c \in db.cnapUsers :
                      /\ g.pi_email = p.info_json["PI_EMAIL"]
                      /\ fc.research_group = g.pk
                      /\ u.email = p.info_json["PI_EMAIL"]
                      /\ c.user = u.pk
                      /\ c.research_group = { g.pk }
                 /\ lastExc = "none"

\* request, staff approval and PI approval of a PI's own request have run
C23_Witness ==
    /\ hist.requests = 1
    /\ hist.staffRuns = 1
    /\ hist.piRuns = 1
    /\ \E p \in db.pendingUsers : p.is_pi /\ p.info_json["EMAIL"] = p.info_json["PI_EMAIL"]
    /\ Cardinality(db.groups) = 1
    /\ Cardinality(db.cnapUsers) = 1

\* the row that the PendingUser q was before the step, if it was there
Earlier(q) == { p \in db.pendingUsers : p.pk = q.pk }

\* the step is a run of staff_approve_pending_user
IsStaffApproval == hist'.staffRuns = hist.staffRuns + 1

ResolvesTo(d, approval_key) == { x \in d.pendingUsers : x.approval_key = approval_key }

\* C34: a run of pi_approve_pending_user neither deletes nor changes the
\* PendingUser it is run for (nor any other), whether it returns or raises,
\* so that the token of the link goes on resolving to that PendingUser.
C34_PendingUserRetained ==
    [][ \A p \in db.pendingUsers :
          IsPIApprovalOf(p) =>
              /\ db'.pendingUsers = db.pendingUsers
              /\ ResolvesTo(db', p.approval_key) = { p } ]_vars

\* the PI has followed the link of one PendingUser twice, and its token
\* still resolves to it
C34_Witness ==
    \E p \in db.pendingUsers :
        /\ PIApprovalsOf(p) >= 2
        /\ p.approval_key # None
        /\ ResolvesTo(db, p.approval_key) = { p }

(***************************************************************************)
(* The pipeline flow, one request at a time.  Payments and Products are    *)
(* entered by the staff; the users and groups are those two PI approvals   *)
(* and the approval of one lab member leave behind.                        *)
(***************************************************************************)
PAYMENT_CODE == "PO-1"
PIPELINE_NAME == "rnaseq"

Digit(n) == << CASE n = 0 -> "0" [] n = 1 -> "1" [] n = 2 -> "2" [] OTHER -> "3" >>

PipelineInfo(e, p, have, acct, num, pipeline) ==
    [ k \in REQUIRED_PIPELINE_CREATION_KEYS |->
        CASE k = "EMAIL" -> e
          [] k = "PI_EMAIL" -> p
          [] k = "HAVE_ACCT_NUM" -> have
          [] k = "ACCT_NUM" -> acct
          [] k = "NUM_OF_SAMPLE" -> num
          [] k = "PIPELINE" -> pipeline
          [] OTHER -> "x" ]

\* the survey's number field is free text: int() also reads a leading "-"
SampleCounts ==
    { Digit(n) : n \in 0..MaxStock + 1 } \cup { << "-", "1" >> }

PipelineInfos ==
    { PipelineInfo(e, p, have, acct, num, pipeline) :
        e \in { "post@lab", "pi2@lab", "new@lab" }, p \in { "pi@lab", "new@lab" },
        have \in YesNoAnswers, acct \in { PAYMENT_CODE, "typo" },
        num \in SampleCounts, pipeline \in { PIPELINE_NAME, "unknown" } }

LabDb ==
    [ EmptyDb EXCEPT
        !.users = { [ pk |-> 1, email |-> "pi@lab", is_staff |-> FALSE ],
                    [ pk |-> 2, email |-> "post@lab", is_staff |-> FALSE ],
                    [ pk |-> 3, email |-> "pi2@lab", is_staff |-> FALSE ],
                    [ pk |-> 4, email |-> "admin@qbrc", is_staff |-> TRUE ] },
        !.groups = { [ pk |-> 1, pi_email |-> "pi@lab", organization |-> None ],
                     [ pk |-> 2, pi_email |-> "pi2@lab", organization |-> None ] },
        !.fcs = { [ pk |-> 1, research_group |-> 1 ], [ pk |-> 2, research_group |-> 2 ] },
        !.cnapUsers = { [ pk |-> 1, user |-> 1, research_group |-> { 1 } ],
                        [ pk |-> 2, user |-> 2, research_group |-> { 1 } ],
                        [ pk |-> 3, user |-> 3, research_group |-> { 2 } ] } ]

\* a payment of amount a with budget rows of the sums in sums, and one product
ShopDb(a, sums, limited, q, unit) ==
    [ LabDb EXCEPT
        !.payments = { [ pk |-> 1, code |-> PAYMENT_CODE, client |-> 1, payment_amount |-> a ] },
        !.budgets = { [ pk |-> 1, payment |-> 1, current_sum |-> x ] : x \in sums },
        !.products = { [ pk |-> 1, name |-> PIPELINE_NAME, is_quantity_limited |-> limited,
                         quantity |-> q, unit_cost |-> unit ] } ]

PipelineInit ==
    /\ \E a \in { None } \cup 0..MaxAmount, sums \in { {} } \cup { { x } : x \in 0..MaxAmount },
          limited \in BOOLEAN, q \in 1..MaxStock, unit \in 1..2 :
         /\ ~ limited => q = 1
         /\ db = ShopDb(a, sums, limited, IF limited THEN q ELSE None, unit)
    /\ sent = EmptyBag
    /\ nextKey = 1
    /\ cnap = {}
    /\ lastExc = "none"
    /\ hist = NoHist
    /\ mailbox = {}
    /\ proc = << >>

\* the request passes the routing and the product lookup, and its cost is
\* compared with the payment
ReachesBudgetCheck(w, info_dict) ==
    /\ UserGet(w, info_dict["EMAIL"]).exc = "none"
    /\ GroupGet(w, info_dict["PI_EMAIL"]).exc = "none"
    /\ CnapUserGet(w, UserGet(w, info_dict["EMAIL"]).row.pk,
                      GroupGet(w, info_dict["PI_EMAIL"]).row.pk).exc = "none"
    /\ Len(info_dict["HAVE_ACCT_NUM"]) > 0
    /\ lower(info_dict["HAVE_ACCT_NUM"])[1] # "n"
    /\ PaymentGet(w, info_dict["ACCT_NUM"]).exc = "none"
    /\ calculate_total_purchase(w, info_dict).w.exc = "none"
    /\ BudgetGet(w, PaymentGet(w, info_dict["ACCT_NUM"]).row.pk).exc # "MultipleObjectsReturned"

CheckOf(w, info_dict) ==
    IF ~ ReachesBudgetCheck(w, info_dict) THEN NoCheck
    ELSE LET payment_ref == PaymentGet(w, info_dict["ACCT_NUM"]).row
             c == calculate_total_purchase(w, info_dict)
             b == BudgetGet(w, payment_ref.pk)
         IN [ reached |-> TRUE,
              prior |-> IF b.exc = "none" THEN b.row.current_sum ELSE 0,
              cost |-> c.qty * c.unit,
              amount |-> payment_ref.payment_amount,
              accepted |-> check_that_purchase_is_valid_against_payment(w, info_dict, payment_ref).ok ]

\* a parsed pipeline request reaches the business logic
PipelineRequest ==
    /\ hist.requests < MaxPipelineRequests
    /\ \E info_dict \in PipelineInfos, status \in { 200, 500 } :
         /\ Commit(handle_pipeline_request_email(World, info_dict, status))
         /\ hist' = [ hist EXCEPT !.requests = @ + 1, !.check = CheckOf(World, info_dict) ]
    /\ UNCHANGED <<mailbox, proc>>

PipelineNext == PipelineRequest

SpecPipeline == PipelineInit /\ [][PipelineNext]_vars

(***************************************************************************)
(* Properties of the pipeline flow.                                        *)
(***************************************************************************)
CurrentSum(payment_pk) ==
    (CHOOSE b \in db.budgets : b.payment = payment_pk).current_sum

\* C3: for a Payment with a non-null amount A, a prior current_sum S and a
\* request of cost C, the validation accepts iff S + C <= A; current_sum is
\* S + C after an acceptance and S after a rejection.
C3_AcceptsIffWithinAmount ==
    ( hist.check.reached /\ hist.check.amount # None ) =>
        /\ hist.check.accepted <=> ( hist.check.prior + hist.check.cost <= hist.check.amount )
        /\ hist.check.accepted => CurrentSum(1) = hist.check.prior + hist.check.cost
        /\ ~ hist.check.accepted => CurrentSum(1) = hist.check.prior

\* what has been charged to the payment: the current_sum of its Budget, and
\* nothing while it has no Budget
Charged(d, payment_pk) ==
    IF \E b \in d.budgets : b.payment = payment_pk
    THEN (CHOOSE b \in d.budgets : b.payment = payment_pk).current_sum
    ELSE 0

\* C37: for a Payment with a non-null amount whose Budget is at or below the
\* amount, a pipeline request handled on its own leaves current_sum at or
\* below the amount and not lower than it was; over a sequence of requests
\* current_sum therefore never exceeds the amount and never decreases.
C37_SumBoundedAndMonotone ==
    [][ \A pay \in db.payments :
          ( pay.payment_amount # None /\ Charged(db, pay.pk) <= pay.payment_amount ) =>
              /\ Charged(db', pay.pk) <= pay.payment_amount
              /\ Charged(db', pay.pk) >= Charged(db, pay.pk) ]_vars

Workers == 1..NumWorkers

Idle == [ pc |-> "idle" ]

RaceInfos ==
    { PipelineInfo(e, "pi@lab", YES, PAYMENT_CODE, Digit(n), PIPELINE_NAME) :
        e \in { "post@lab", "pi@lab" }, n \in 1..MaxStock }

BudgetRaceInit ==
    /\ \E a \in 1..MaxAmount, sums \in { {} } \cup { { x } : x \in 0..MaxAmount },
          limited \in BOOLEAN, q \in 1..MaxStock, unit \in 1..2 :
         /\ ~ limited => q = 1
         /\ \A x \in sums : x <= a
         /\ db = ShopDb(a, sums, limited, IF limited THEN q ELSE None, unit)
         /\ hist = [ NoHist EXCEPT !.opening = IF sums = {} THEN 0 ELSE CHOOSE x \in sums : TRUE ]
    /\ sent = EmptyBag
    /\ nextKey = 1
    /\ cnap = {}
    /\ lastExc = "none"
    /\ mailbox = {}
    /\ proc = [ k \in Workers |-> Idle ]

\* the request is routed and priced (lines 1276-1320 and 1078-1085)
BR_Price(k) ==
    /\ proc[k].pc = "idle"
    /\ \E info_dict \in RaceInfos :
         LET c == calculate_total_purchase(World, info_dict)
             caught == [ c.w EXCEPT !.exc = "none" ]
         IN IF c.w.exc = "none"
            THEN /\ Commit(c.w)
                 /\ proc' = [ proc EXCEPT ![k] =
                      [ pc |-> "load", info |-> info_dict, cost |-> c.qty * c.unit,
                        payment |-> PaymentGet(World, info_dict["ACCT_NUM"]).row ] ]
            ELSE /\ Commit(inform_user_of_invalid_order(
                             send_inventory_alert_to_qbrc(caught, info_dict), info_dict))
                 /\ proc' = [ proc EXCEPT ![k] = [ pc |-> "done", accepted |-> FALSE, cost |-> 0 ] ]
    /\ UNCHANGED <<hist, mailbox>>

\* the Budget of the payment is looked for (lines 1087-1088)
BR_Load(k) ==
    /\ proc[k].pc = "load"
    /\ LET got == BudgetGet(World, proc[k].payment.pk)
       IN IF got.exc = "none"
          THEN /\ proc' = [ proc EXCEPT ![k] = [ @ EXCEPT !.pc = "charge" ] @@ [ budget |-> got.row ] ]
               /\ UNCHANGED <<db, sent, nextKey, cnap, lastExc>>
          ELSE IF got.exc = "DoesNotExist"
               THEN /\ proc' = [ proc EXCEPT ![k] = [ @ EXCEPT !.pc = "create" ] ]
                    /\ UNCHANGED <<db, sent, nextKey, cnap, lastExc>>
          ELSE /\ Commit([ handle_exception(World) EXCEPT !.exc = got.exc ])
               /\ proc' = [ proc EXCEPT ![k] = [ pc |-> "done", accepted |-> FALSE, cost |-> 0 ] ]
    /\ UNCHANGED <<hist, mailbox>>

\* none was found: one is created (lines 1089-1092)
BR_Create(k) ==
    /\ proc[k].pc = "create"
    /\ Commit(create_budget(World, proc[k].payment.pk))
    /\ proc' = [ proc EXCEPT ![k] = [ @ EXCEPT !.pc = "charge" ]
                   @@ [ budget |-> [ pk |-> NextPk(db.budgets), payment |-> proc[k].payment.pk,
                                     current_sum |-> 0 ] ] ]
    /\ UNCHANGED <<hist, mailbox>>

\* the new sum is compared and saved (lines 1094-1114), a rejection is mailed
BR_Charge(k) ==
    /\ proc[k].pc = "charge"
    /\ LET r == charge_budget(World, proc[k].budget, proc[k].cost, proc[k].payment)
       IN IF r.ok
          THEN /\ Commit(r.w)
               /\ proc' = [ proc EXCEPT ![k] = [ @ EXCEPT !.pc = "fill" ] ]
          ELSE /\ Commit(inform_user_of_invalid_order(r.w, proc[k].info))
               /\ proc' = [ proc EXCEPT ![k] = [ pc |-> "done", accepted |-> FALSE, cost |-> 0 ] ]
    /\ UNCHANGED <<hist, mailbox>>

\* the accepted request is filled (line 1332); process_emails reports what
\* fill_order raises
BR_Fill(k) ==
    /\ proc[k].pc = "fill"
    /\ \E status \in { 200, 500 } :
         LET r == fill_order(World, proc[k].info, proc[k].payment, status)
         IN Commit(IF r.exc = "none" THEN r ELSE [ handle_exception(r) EXCEPT !.exc = r.exc ])
    /\ proc' = [ proc EXCEPT ![k] = [ pc |-> "done", accepted |-> TRUE, cost |-> proc[k].cost ] ]
    /\ UNCHANGED <<hist, mailbox>>

BudgetRaceNext ==
    \E k \in Workers :
        BR_Price(k) \/ BR_Load(k) \/ BR_Create(k) \/ BR_Charge(k) \/ BR_Fill(k)

SpecBudgetRace == BudgetRaceInit /\ [][BudgetRaceNext]_vars

RECURSIVE AcceptedCharges(_)
AcceptedCharges(ks) ==
    IF ks = {} THEN 0
    ELSE LET k == CHOOSE x \in ks : TRUE
         IN ( IF proc[k].pc \in { "fill", "done" } /\ ( proc[k].pc = "fill" \/ proc[k].accepted )
              THEN proc[k].cost ELSE 0 )
            + AcceptedCharges(ks \ { k })

\* C4: whatever the interleaving of concurrent requests against one payment
\* code, the charges accepted so far, added to the current_sum the payment
\* started with, do not exceed the Payment amount.
C4_NoOverdraw ==
    \A pay \in db.payments :
        hist.opening + AcceptedCharges(Workers) <= pay.payment_amount

\* C36: there is at most one Budget row for a Payment in every reachable
\* state: the validation creates one only where the Payment has none.
C36_OneBudgetPerPayment ==
    \A pay \in db.payments :
        Cardinality({ b \in db.budgets : b.payment = pay.pk }) <= 1

(***************************************************************************)
(* Two workers handle pipeline requests for one quantity-limited product   *)
(* at once.  The steps of a request are its validation, with the stock     *)
(* check of calculate_total_purchase, the lookup of the Product at the     *)
(* head of fill_order, and the rest of fill_order, which saves the row it  *)
(* looked up with the lowered quantity.  The payment is an open one, so    *)
(* that no request is turned away for its cost.                            *)
(***************************************************************************)
StockInfos ==
    { PipelineInfo("post@lab", "pi@lab", YES, PAYMENT_CODE, num, PIPELINE_NAME) :
        num \in SampleCounts }

StockRaceInit ==
    /\ \E q \in 1..MaxStock, unit \in 1..2 : db = ShopDb(None, {}, TRUE, q, unit)
    /\ sent = EmptyBag
    /\ nextKey = 1
    /\ cnap = {}
    /\ lastExc = "none"
    /\ hist = NoHist
    /\ mailbox = {}
    /\ proc = [ k \in Workers |-> Idle ]

\* the request is validated (lines 1276-1335 without fill_order)
SR_Check(k) ==
    /\ proc[k].pc = "idle"
    /\ \E info_dict \in StockInfos :
         LET payment_ref == PaymentGet(World, info_dict["ACCT_NUM"]).row
             v == check_that_purchase_is_valid_against_payment(World, info_dict, payment_ref)
         IN IF v.w.exc # "none"
            THEN /\ Commit([ handle_exception(v.w) EXCEPT !.exc = v.w.exc ])
                 /\ proc' = [ proc EXCEPT ![k] = [ pc |-> "done", accepted |-> FALSE ] ]
            ELSE IF v.ok
            THEN /\ Commit(v.w)
                 /\ proc' = [ proc EXCEPT ![k] =
                      [ pc |-> "read", info |-> info_dict, payment |-> payment_ref ] ]
            ELSE /\ Commit(inform_user_of_invalid_order(v.w, info_dict))
                 /\ proc' = [ proc EXCEPT ![k] = [ pc |-> "done", accepted |-> FALSE ] ]
    /\ UNCHANGED <<hist, mailbox>>

\* fill_order looks the Product up (line 1155)
SR_Read(k) ==
    /\ proc[k].pc = "read"
    /\ proc' = [ proc EXCEPT ![k] = [ @ EXCEPT !.pc = "save" ]
                   @@ [ product |-> ProductGet(World, proc[k].info["PIPELINE"]).row ] ]
    /\ UNCHANGED <<db, sent, nextKey, cnap, lastExc, hist, mailbox>>

\* the rest of fill_order (lines 1157-1189) with the Product as it was
\* looked up; product.save() writes that row over the stored one, and is
\* reached when fill_order returns or raises in create_project_on_cnap
SR_Save(k) ==
    /\ proc[k].pc = "save"
    /\ \E status \in { 200, 500 } :
         LET held == [ World EXCEPT !.db.products =
                         { IF x.pk = proc[k].product.pk THEN proc[k].product ELSE x : x \in @ } ]
             r == fill_order(held, proc[k].info, proc[k].payment, status)
             saved == r.exc \in { "none", "NameError" }
             after == IF saved THEN r ELSE [ r EXCEPT !.db.products = db.products ]
         IN Commit(IF after.exc = "none" THEN after
                   ELSE [ handle_exception(after) EXCEPT !.exc = after.exc ])
    /\ proc' = [ proc EXCEPT ![k] = [ pc |-> "done", accepted |-> TRUE ] ]
    /\ UNCHANGED <<hist, mailbox>>

StockRaceNext ==
    \E k \in Workers : SR_Check(k) \/ SR_Read(k) \/ SR_Save(k)

SpecStockRace == StockRaceInit /\ [][StockRaceNext]_vars

\* C38: the quantity of a quantity-limited Product is not negative in any
\* reachable state, also where the stock check of one request and the
\* decrement of another interleave.
C38_StockNeverNegative ==
    \A x \in db.products : x.is_quantity_limited => x.quantity >= 0

\* two requests passed the stock check against the same stock; one was
\* filled, and the Order of the other, for more than what is left, is
\* stored while its decrement was refused
C38_Witness ==
    /\ lastExc = "IntegrityError"
    /\ \A k \in Workers : proc[k].pc = "done" /\ proc[k].accepted
    /\ \E x \in db.products, o \in db.orders :
         /\ x.is_quantity_limited
         /\ o.product = x.pk
         /\ o.quantity > x.quantity

(***************************************************************************)
(* Two PI approvals run at once.  The steps of pi_approve_pending_user are *)
(* its lookups, the instantiation of the group, the get-or-create of the   *)
(* requester, the check for the pair, and the creation of the pair.  The   *)
(* PendingUsers are those that account requests (and staff approvals,      *)
(* where the lab is unknown) have left behind.                             *)
(***************************************************************************)
W0 == [ db |-> EmptyDb, sent |-> EmptyBag, nextKey |-> 1, cnap |-> {}, exc |-> "none" ]

\* the request is handled and, where it waits for the staff, approved by them
Prepared(w, info_dict) ==
    LET pk == NextPk(w.db.pendingUsers)
        w1 == handle_account_request_email(w, info_dict)
    IN IF \E p \in w1.db.pendingUsers : p.pk = pk /\ p.approval_key = None
       THEN staff_approve_pending_user(w1, pk)
       ELSE w1

\* pi@lab has registered the lab: request, staff approval, PI approval
KnownLab(w) ==
    pi_approve_pending_user(
        staff_approve_pending_user(
            handle_account_request_email(w, AccountInfo("pi@lab", YES, "pi@lab", "HSPH")), 1), 1)

AssocRaceInit ==
    /\ \E base \in { W0, KnownLab(W0) },
          i1, i2 \in { i \in AccountInfos : i["PI"] = NO } :
         LET w == Prepared(Prepared(base, i1), i2)
         IN /\ db = w.db
            /\ sent = w.sent
            /\ nextKey = w.nextKey
    /\ cnap = {}
    /\ lastExc = "none"
    /\ hist = NoHist
    /\ mailbox = {}
    /\ proc = [ k \in Workers |-> Idle ]

Failed(k, w) ==
    /\ Commit(w)
    /\ proc' = [ proc EXCEPT ![k] = [ pc |-> "failed" ] ]

\* PIApprovalView.get starts the task; the task reads the PendingUser and
\* looks for the group (lines 356-361)
AR_Start(k) ==
    /\ proc[k].pc = "idle"
    /\ \E p \in db.pendingUsers :
         /\ p.approval_key # None
         /\ proc' = [ proc EXCEPT ![k] =
              [ pc |-> IF check_for_pi_account(World, p.info_json) = None
                       THEN "instantiate"
                       ELSE IF p.is_pi THEN "done" ELSE "requester",
                p |-> p, rg |-> check_for_pi_account(World, p.info_json), user_obj |-> None ] ]
    /\ UNCHANGED <<db, sent, nextKey, cnap, lastExc, hist, mailbox>>

\* lines 364-365
AR_Instantiate(k) ==
    /\ proc[k].pc = "instantiate"
    /\ LET r == instantiate_new_research_group(World, proc[k].p.info_json)
       IN IF r.w.exc # "none" THEN Failed(k, r.w)
          ELSE /\ Commit(r.w)
               /\ proc' = [ proc EXCEPT ![k] =
                    [ @ EXCEPT !.pc = IF proc[k].p.is_pi THEN "done" ELSE "requester", !.rg = r.rg ] ]
    /\ UNCHANGED <<hist, mailbox>>

\* lines 374-383
AR_Requester(k) ==
    /\ proc[k].pc = "requester"
    /\ LET u == get_or_create_requester(World, proc[k].p.info_json)
       IN IF u.w.exc # "none" THEN Failed(k, u.w)
          ELSE /\ Commit(u.w)
               /\ proc' = [ proc EXCEPT ![k] = [ @ EXCEPT !.pc = "check", !.user_obj = u.user_obj ] ]
    /\ UNCHANGED <<hist, mailbox>>

\* lines 389-395
AR_Check(k) ==
    /\ proc[k].pc = "check"
    /\ LET a == existing_association(World, proc[k].user_obj, proc[k].rg)
       IN IF a.exc = "none" THEN proc' = [ proc EXCEPT ![k] = [ @ EXCEPT !.pc = "done" ] ]
          ELSE IF a.exc = "DoesNotExist"
               THEN proc' = [ proc EXCEPT ![k] = [ @ EXCEPT !.pc = "confirm" ] ]
          ELSE proc' = [ proc EXCEPT ![k] = [ pc |-> "failed" ] ]
    /\ UNCHANGED <<db, sent, nextKey, cnap, lastExc, hist, mailbox>>

\* lines 396-404
AR_Confirm(k) ==
    /\ proc[k].pc = "confirm"
    /\ Commit(confirm_association(World, proc[k].p, proc[k].user_obj, proc[k].rg))
    /\ proc' = [ proc EXCEPT ![k] = [ @ EXCEPT !.pc = "done" ] ]
    /\ UNCHANGED <<hist, mailbox>>

AssocRaceNext ==
    \E k \in Workers :
        AR_Start(k) \/ AR_Instantiate(k) \/ AR_Requester(k) \/ AR_Check(k) \/ AR_Confirm(k)

SpecAssocRace == AssocRaceInit /\ [][AssocRaceNext]_vars

\* C5: when the concurrent PI approvals have finished, no (user, group) pair
\* has more than one CnapUser association.
C5_OneAssociationAfterRace ==
    ( \A k \in Workers : proc[k].pc \in { "done", "failed" } ) =>
        \A u \in db.users, g \in db.groups :
            Cardinality(AssociationsOf(u.pk, g.pk)) <= 1

(***************************************************************************)
(* The polling task.  The mailbox holds messages by UID; a message is      *)
(* given by its kind, from which its subject, its bytes and the lines of   *)
(* its body follow.  A line is <<key, value>>, <<text>> where it has no    *)
(* colon, and << >> where it is blank.                                     *)
(***************************************************************************)
MAIL_HOST == "imap.host"
MAIL_FOLDER_NAME == "INBOX"

RECURSIVE SetToSeq(_)
SetToSeq(S) ==
    IF S = {} THEN << >>
    ELSE LET x == CHOOSE y \in S : TRUE IN << x >> \o SetToSeq(S \ { x })

LinesOf(info_dict, keys) == [ i \in 1..Len(keys) |-> << keys[i], info_dict[keys[i]] >> ]

AccountLines(pi) ==
    << << "Q0", "survey" >>, << >> >>
        \o LinesOf(AccountInfo("post@lab", pi, "pi@lab", IF pi = YES THEN "HSPH" ELSE ""),
                   REQUIRED_ACCOUNT_CREATION_KEYS)

PipelineLines ==
    LinesOf(PipelineInfo("post@lab", "pi@lab", YES, PAYMENT_CODE, Digit(1), PIPELINE_NAME),
            SetToSeq(REQUIRED_PIPELINE_CREATION_KEYS))

MessageKinds ==
    { "account", "account by pi", "account blank pi", "account missing key",
      "account no colon", "account no body", "account undecodable",
      "pipeline", "pipeline missing key" }

Subject(kind) ==
    IF kind \in { "pipeline", "pipeline missing key" } THEN PIPELINE_REQUEST ELSE ACCOUNT_REQUEST

Decodable(kind) == kind # "account undecodable"

Payload(kind) ==
    CASE kind = "account" -> [ body |-> TRUE, lines |-> AccountLines(NO) ]
      [] kind = "account by pi" -> [ body |-> TRUE, lines |-> AccountLines(YES) ]
      [] kind = "account blank pi" -> [ body |-> TRUE, lines |-> AccountLines(<< >>) ]
      [] kind = "account missing key" -> [ body |-> TRUE, lines |-> Tail(Tail(Tail(AccountLines(NO)))) ]
      [] kind = "account no colon" -> [ body |-> TRUE, lines |-> AccountLines(NO) \o << << "thanks" >> >> ]
      [] kind = "account no body" -> [ body |-> FALSE, lines |-> << >> ]
      [] kind = "pipeline" -> [ body |-> TRUE, lines |-> PipelineLines ]
      [] kind = "pipeline missing key" -> [ body |-> TRUE, lines |-> Tail(PipelineLines) ]
      [] OTHER -> [ body |-> FALSE, lines |-> << >> ]

is_new_email_always(w, mail_server, folder, email_uid) == TRUE

is_new_email(w, mail_server, folder, email_uid) ==
    { p \in w.db.processed :
        /\ p.mail_server_name = mail_server
        /\ p.mail_folder_name = folder
        /\ p.message_uid = email_uid } = {}

parse_email_contents(payload, required_keyset) ==
    LET contents == SelectSeq(payload.lines, LAMBDA x : Len(x) > 0)
        kept == { i \in DOMAIN contents : Len(contents[i]) = 2 /\ contents[i][1] \in required_keyset }
        keys == { contents[i][1] : i \in kept }
        last(k) == CHOOSE i \in kept :
                       /\ contents[i][1] = k
                       /\ \A j \in kept : contents[j][1] = k => j <= i
    IN IF ~ payload.body
       THEN [ exc |-> "MailParseException" ]
       ELSE IF \E i \in DOMAIN contents : Len(contents[i]) # 2
            THEN [ exc |-> "MailParseException" ]
       ELSE IF required_keyset \ keys # {}
            THEN [ exc |-> "MailParseException" ]
       ELSE [ exc |-> "none", info_dict |-> [ k \in keys |-> contents[last(k)][2] ] ]

\* the marker is stored first and deleted if the bytes cannot be decoded
get_email_body(w, message) ==
    LET p == [ pk |-> NextPk(w.db.processed), mail_server_name |-> MAIL_HOST,
               mail_folder_name |-> MAIL_FOLDER_NAME, message_uid |-> message.uid ]
        marked == [ w EXCEPT !.db.processed = @ \cup { p } ]
    IN IF Decodable(message.kind)
       THEN [ w |-> marked, exc |-> "none", payload |-> Payload(message.kind) ]
       ELSE [ w |-> [ marked EXCEPT !.db.processed = @ \ { p } ], exc |-> "UnicodeDecodeError" ]

\* a polling run in progress: the world and what the run has done
Run(w) == [ w |-> w, handled |-> hist.handled, began |-> hist.began, raised |-> hist.raised ]

\* the element of a set of one element
The(S) == CHOOSE y \in S : TRUE

\* the rest of the loop body once get_email_body has returned
handle_body(r, message, body, request_type, status) ==
    LET touched == [ r EXCEPT !.handled = @ (+) SetToBag({ message.uid }) ]
        parsed == parse_email_contents(body.payload,
                      IF request_type = ACCOUNT_REQUEST
                      THEN Range(REQUIRED_ACCOUNT_CREATION_KEYS)
                      ELSE REQUIRED_PIPELINE_CREATION_KEYS)
        business(info_dict) ==
            IF request_type = ACCOUNT_REQUEST
            THEN handle_account_request_email(body.w, info_dict)
            ELSE handle_pipeline_request_email(body.w, info_dict, status)
        reported(done) ==
            [ touched EXCEPT
                !.began = @ (+) SetToBag({ message.uid }),
                !.raised = IF done.exc # "none" THEN @ \cup { message.uid } ELSE @,
                !.w = IF done.exc # "none"
                      THEN [ handle_exception([ done EXCEPT !.exc = "none" ]) EXCEPT !.exc = done.exc ]
                      ELSE done ]
    IN IF body.exc # "none"
       THEN [ touched EXCEPT !.w = [ handle_exception(body.w) EXCEPT !.exc = body.exc ] ]
       ELSE IF parsed.exc # "none"
            THEN [ touched EXCEPT !.w = [ handle_exception(body.w) EXCEPT !.exc = parsed.exc ] ]
       ELSE The({ reported(done) : done \in { business(parsed.info_dict) } })

\* the body of the loop of process_emails, for one message
handle_message(r, message, request_type, status) ==
    The({ handle_body(r, message, body, request_type, status) :
             body \in { get_email_body(r.w, message) } })

RECURSIVE process_each(_, _, _, _)
process_each(r, messages, request_type, status) ==
    IF messages = << >> THEN r
    ELSE The({ process_each(next, Tail(messages), request_type, status) :
                  next \in { handle_message([ r EXCEPT !.w.exc = "none" ], Head(messages),
                                            request_type, status) } })

RECURSIVE SortedUids(_)
SortedUids(S) ==
    IF S = {} THEN << >>
    ELSE LET x == CHOOSE y \in S : \A z \in S : y <= z IN << x >> \o SortedUids(S \ { x })

MessageOf(uid) == CHOOSE m \in mailbox : m.uid = uid

\* the loop left at the first message whose handling raises
RECURSIVE process_until_failure(_, _, _, _)
process_until_failure(r, messages, request_type, status) ==
    IF messages = << >> THEN r
    ELSE The({ IF next.w.exc # "none" THEN next
               ELSE process_until_failure(next, Tail(messages), request_type, status) :
                  next \in { handle_message([ r EXCEPT !.w.exc = "none" ], Head(messages),
                                            request_type, status) } })

process_emails_until_failure(r, id_list, request_type, fetch_ok, status) ==
    IF id_list = << >> THEN r
    ELSE IF ~ fetch_ok THEN [ r EXCEPT !.w.exc = "MailQueryException" ]
    ELSE process_until_failure(r, [ i \in DOMAIN id_list |-> MessageOf(id_list[i]) ],
                               request_type, status)

\* fetch_ok: the server answers the fetch with OK
process_emails(r, id_list, request_type, fetch_ok, status) ==
    IF id_list = << >> THEN r
    ELSE IF ~ fetch_ok THEN [ r EXCEPT !.w.exc = "MailQueryException" ]
    ELSE process_each(r, [ i \in DOMAIN id_list |-> MessageOf(id_list[i]) ], request_type, status)

\* the UIDs the server returns for the subject of the request type
query_imap_server_for_ids(subject) ==
    SortedUids({ m.uid : m \in { x \in mailbox : Subject(x.kind) = subject } })

Unprocessed(w, id_list) ==
    SelectSeq(id_list, LAMBDA uid : is_new_email(w, MAIL_HOST, MAIL_FOLDER_NAME, uid))

Failures ==
    { "none", "get_mailbox", "search accounts", "fetch accounts", "search pipelines",
      "fetch pipelines" }

\* the pipeline requests of a run, after its account requests
check_for_pipeline_requests(accounts, failure, status) ==
    LET reported(x, e) == [ x EXCEPT !.w = [ handle_exception([ x.w EXCEPT !.exc = "none" ]) EXCEPT !.exc = e ] ]
        after(pipelines) ==
            IF pipelines.w.exc = "MailQueryException"
            THEN reported(pipelines, "MailQueryException")
            ELSE pipelines
    IN IF accounts.w.exc = "MailQueryException"
       THEN reported(accounts, "MailQueryException")
       ELSE IF failure = "search pipelines"
            THEN reported(accounts, "MailQueryException")
       ELSE The({ after(pipelines) :
                  pipelines \in { process_emails(accounts,
                                      Unprocessed(accounts.w, query_imap_server_for_ids(PIPELINE_REQUEST)),
                                      PIPELINE_REQUEST, failure # "fetch pipelines", status) } })

\* a failure of the mailbox or of the first search is reported and the run
\* goes on with the pipeline requests
check_for_qualtrics_survey_results_going_on(r, failure, status) ==
    IF failure \in { "get_mailbox", "search accounts" }
    THEN check_for_pipeline_requests([ r EXCEPT !.w = handle_exception(r.w) ], "none", status)
    ELSE The({ check_for_pipeline_requests(accounts, failure, status) :
                  accounts \in { process_emails(r,
                                     Unprocessed(r.w, query_imap_server_for_ids(ACCOUNT_REQUEST)),
                                     ACCOUNT_REQUEST, failure # "fetch accounts", status) } })

\* failure: the step of the run at which the mail server fails, if any
check_for_qualtrics_survey_results(r, failure, status) ==
    IF failure \in { "get_mailbox", "search accounts" }
    THEN [ r EXCEPT !.w = [ handle_exception(r.w) EXCEPT !.exc = "MailQueryException" ] ]
    ELSE The({ check_for_pipeline_requests(accounts, failure, status) :
                  accounts \in { process_emails(r,
                                     Unprocessed(r.w, query_imap_server_for_ids(ACCOUNT_REQUEST)),
                                     ACCOUNT_REQUEST, failure # "fetch accounts", status) } })

PollInit ==
    /\ db \in { [ EmptyDb EXCEPT !.users = { [ pk |-> 1, email |-> "admin@qbrc", is_staff |-> TRUE ] } ],
                ShopDb(MaxAmount, {}, FALSE, None, 1) }
    /\ sent = EmptyBag
    /\ nextKey = 1
    /\ cnap = {}
    /\ lastExc = "none"
    /\ hist = NoHist
    /\ mailbox = {}
    /\ proc = << >>

\* a survey result arrives in the folder
Deliver ==
    /\ Cardinality(mailbox) < MaxMessages
    /\ \E kind \in MessageKinds :
         mailbox' = mailbox \cup { [ uid |-> Cardinality(mailbox) + 1, kind |-> kind ] }
    /\ UNCHANGED <<db, sent, nextKey, cnap, lastExc, hist, proc>>

\* one run of the periodic task
Poll ==
    /\ hist.polls < MaxPolls
    /\ \E failure \in Failures, status \in { 200, 500 } :
         \E r \in { check_for_qualtrics_survey_results(Run(World), failure, status) } :
            /\ Commit(r.w)
            /\ hist' = [ hist EXCEPT
                 !.polls = @ + 1,
                 !.handled = r.handled,
                 !.began = r.began,
                 !.raised = r.raised,
                 !.skipped = IF failure \in { "get_mailbox", "search accounts" } THEN @
                             ELSE @ \cup { m.uid : m \in { x \in mailbox :
                                      /\ Subject(x.kind) = ACCOUNT_REQUEST
                                      /\ ~ is_new_email(World, MAIL_HOST, MAIL_FOLDER_NAME, x.uid) } } ]
    /\ UNCHANGED <<mailbox, proc>>

PollNext == Deliver \/ Poll

SpecPoll == PollInit /\ [][PollNext]_vars

Markers(uid) ==
    { p \in db.processed :
        /\ p.mail_server_name = MAIL_HOST
        /\ p.mail_folder_name = MAIL_FOLDER_NAME
        /\ p.message_uid = uid }

Count(bag, x) == IF x \in DOMAIN bag THEN bag[x] ELSE 0

ParseFails(m) ==
    /\ Decodable(m.kind)
    /\ parse_email_contents(Payload(m.kind),
           IF Subject(m.kind) = ACCOUNT_REQUEST
           THEN Range(REQUIRED_ACCOUNT_CREATION_KEYS)
           ELSE REQUIRED_PIPELINE_CREATION_KEYS).exc # "none"

\* C6: a message whose parsing fails (a required key is missing, a line has
\* no colon) has no ProcessedEmail marker after a run, so that the next run
\* selects it again.
C6_ParseFailureLeavesNoMarker ==
    \A m \in mailbox : ParseFails(m) => Markers(m.uid) = {}

\* C7: a message that was parsed and handed to the business logic keeps its
\* ProcessedEmail marker, and no later run handles it again: it was taken up
\* once and its business logic began once, also where that logic raised.
C7_ConsumedOnce ==
    \A m \in mailbox :
        Count(hist.began, m.uid) >= 1 =>
            /\ Markers(m.uid) # {}
            /\ Count(hist.began, m.uid) = 1
            /\ Count(hist.handled, m.uid) = 1

\* a message whose business logic raised has been met again by a later run
C7_Witness ==
    \E m \in mailbox :
        /\ m.uid \in hist.raised
        /\ m.uid \in hist.skipped
        /\ Count(hist.began, m.uid) = 1

(***************************************************************************)
(* The decision table of handle_account_request_email.  The database is    *)
(* one that earlier requests and their approvals have left behind; each    *)
(* step handles one request and keeps the request and the state it met, so *)
(* that the effect of the decision can be read off.                        *)
(***************************************************************************)
\* the request is handled and every approval it waits for is given
Settled(w, info_dict) ==
    LET pk == NextPk(w.db.pendingUsers)
        w1 == [ Prepared(w, info_dict) EXCEPT !.exc = "none" ]
    IN IF \E p \in w1.db.pendingUsers : p.pk = pk
       THEN [ pi_approve_pending_user(w1, pk) EXCEPT !.exc = "none" ]
       ELSE w1

Staffed(staff) ==
    [ W0 EXCEPT !.db.users = { [ pk |-> 1, email |-> e, is_staff |-> TRUE ] : e \in staff } ]

\* what up to two earlier requests have left behind, the second of them
\* possibly still waiting for the PI
Histories ==
    LET bases == { Staffed(staff) : staff \in SUBSET AdminEmails }
        one == { Settled(b, i) : b \in bases, i \in AccountInfos }
        two == { Settled(w, i) : w \in one, i \in AccountInfos }
        waiting == { [ Prepared(w, i) EXCEPT !.exc = "none" ] : w \in one, i \in AccountInfos }
    IN bases \cup one \cup two \cup waiting

DecisionInit ==
    /\ \E w \in Histories :
         /\ db = w.db
         /\ sent = w.sent
         /\ nextKey = w.nextKey
    /\ cnap = {}
    /\ lastExc = "none"
    /\ hist = NoHist
    /\ mailbox = {}
    /\ proc = Idle

\* process_emails hands a parsed account request to the business logic
Decide ==
    /\ hist.requests < MaxRequests
    /\ \E info_dict \in AccountInfos :
         /\ Commit(handle_account_request_email(World, info_dict))
         /\ proc' = [ pc |-> "decided", info |-> info_dict,
                       db |-> db, sent |-> sent, nextKey |-> nextKey ]
    /\ hist' = [ hist EXCEPT !.requests = @ + 1 ]
    /\ UNCHANGED mailbox

DecisionNext == Decide

SpecDecision == DecisionInit /\ [][DecisionNext]_vars

\* the last request and the state it met
Decided == proc.pc = "decided"
Met == [ db |-> proc.db, sent |-> proc.sent, nextKey |-> proc.nextKey, cnap |-> {}, exc |-> "none" ]
RequestIsByPI == lower(proc.info["PI"])[1] = "y"
LabKnown == check_for_pi_account(Met, proc.info) # None
RequesterKnown == determine_if_existing_user(Met, proc.info) # None
RequesterAssociated ==
    \E c \in proc.db.cnapUsers :
        /\ c.user = determine_if_existing_user(Met, proc.info)
        /\ check_for_pi_account(Met, proc.info) \in c.research_group

\* what the decision added
NewPendingUsers == db.pendingUsers \ proc.db.pendingUsers
NewMail == sent (-) proc.sent
Mailed(kind, to) ==
    LET m == [ kind |-> kind, to |-> to, pi |-> proc.info["PI_EMAIL"] ]
        n == [ kind |-> kind, to |-> to, pi |-> "" ]
    IN CopiesIn(m, NewMail) + CopiesIn(n, NewMail)
OnlyPendingUsersAdded ==
    /\ proc.db.pendingUsers \subseteq db.pendingUsers
    /\ [ db EXCEPT !.pendingUsers = {} ] = [ proc.db EXCEPT !.pendingUsers = {} ]

\* C14: a request whose PI has no ResearchGroup creates exactly one
\* PendingUser, with is_pi as the request says and without approval key;
\* the staff is told once and nothing goes to the PI or the requester.
C14_UnknownLabWaitsForStaff ==
    ( Decided /\ ~ LabKnown ) =>
        /\ Cardinality(NewPendingUsers) = 1
        /\ \A p \in NewPendingUsers :
             /\ p.is_pi = RequestIsByPI
             /\ p.approval_key = None
             /\ p.info_json = proc.info
        /\ OnlyPendingUsersAdded
        /\ Mailed("inform_staff_of_new_account", QBRC_EMAIL) = 1
        /\ BagCardinality(NewMail) = 1

\* a request of a known requester who is no PI, for a lab that is not known,
\* has been decided
C14_Witness ==
    /\ Decided
    /\ ~ LabKnown
    /\ RequesterKnown
    /\ ~ RequestIsByPI
    /\ Cardinality(NewPendingUsers) = 1

OnlyKind(kind) ==
    /\ BagCardinality(NewMail) = 1
    /\ \A m \in BagToSet(NewMail) : m.kind = kind

\* C15 as stated: a request of an unknown requester who is no PI creates one
\* PendingUser with is_pi false and the staff is notified, whether or not
\* the lab is known.
C15_StaffToldForEveryLab ==
    ( Decided /\ ~ RequestIsByPI /\ ~ RequesterKnown ) =>
        /\ Cardinality(NewPendingUsers) = 1
        /\ \A p \in NewPendingUsers : ~ p.is_pi
        /\ Mailed("inform_staff_of_new_account", QBRC_EMAIL) = 1

\* C15: a request of an unknown requester who is no PI creates one
\* PendingUser with is_pi false whether or not the lab is known; the staff is
\* notified exactly when the lab is not known, and where it is known the
\* PendingUser has its approval key and the staff is not notified.
C15_NewRequesterWaits ==
    ( Decided /\ ~ RequestIsByPI /\ ~ RequesterKnown ) =>
        /\ Cardinality(NewPendingUsers) = 1
        /\ OnlyPendingUsersAdded
        /\ \A p \in NewPendingUsers :
             /\ ~ p.is_pi
             /\ p.info_json = proc.info
             /\ ( p.approval_key = None ) <=> ~ LabKnown
        /\ Mailed("inform_staff_of_new_account", QBRC_EMAIL) = ( IF LabKnown THEN 0 ELSE 1 )

\* the request of an unknown requester met a known lab and left a
\* PendingUser that has its approval key
C15_Witness ==
    /\ Decided
    /\ ~ RequestIsByPI
    /\ ~ RequesterKnown
    /\ LabKnown
    /\ \E p \in NewPendingUsers : ~ p.is_pi /\ p.approval_key # None

\* C16: a request of an unknown requester who is no PI, for a lab that is
\* known, creates exactly one PendingUser; the PI is sent the approval link
\* once and the requester the pending notice once.
C16_KnownLabAsksPI ==
    ( Decided /\ ~ RequestIsByPI /\ ~ RequesterKnown /\ LabKnown ) =>
        /\ Cardinality(NewPendingUsers) = 1
        /\ Mailed("send_approval_email_to_pi", proc.info["PI_EMAIL"]) = 1
        /\ Mailed("send_account_pending_email_to_requester", proc.info["EMAIL"]) = 1
        /\ BagCardinality(NewMail) = 2

C16_Witness ==
    /\ Decided
    /\ ~ RequestIsByPI
    /\ ~ RequesterKnown
    /\ LabKnown
    /\ Mailed("send_account_pending_email_to_requester", proc.info["EMAIL"]) = 1

\* C17 as stated: a request of a known requester who is no PI, for a known
\* lab the requester is not associated with, creates one PendingUser with
\* is_pi false and an approval key, asks the PI for approval and sends the
\* requester a pending notice.
C17_RequesterToldPending ==
    ( Decided /\ ~ RequestIsByPI /\ RequesterKnown /\ LabKnown /\ ~ RequesterAssociated ) =>
        /\ Cardinality(NewPendingUsers) = 1
        /\ \A p \in NewPendingUsers : ~ p.is_pi /\ p.approval_key # None
        /\ Mailed("send_approval_email_to_pi", proc.info["PI_EMAIL"]) = 1
        /\ Mailed("send_account_pending_email_to_requester", proc.info["EMAIL"]) = 1

\* C17: a request of a known requester who is no PI, for a known lab the
\* requester is not associated with, creates one PendingUser with is_pi
\* false and an approval key and asks the PI for approval once; nothing else
\* is sent, so the requester gets no pending notice.
C17_KnownRequesterAsksPI ==
    ( Decided /\ ~ RequestIsByPI /\ RequesterKnown /\ LabKnown /\ ~ RequesterAssociated ) =>
        /\ Cardinality(NewPendingUsers) = 1
        /\ OnlyPendingUsersAdded
        /\ \A p \in NewPendingUsers :
             ~ p.is_pi /\ p.approval_key # None /\ p.info_json = proc.info
        /\ Mailed("send_approval_email_to_pi", proc.info["PI_EMAIL"]) = 1
        /\ OnlyKind("send_approval_email_to_pi")

C17_Witness ==
    /\ Decided
    /\ ~ RequestIsByPI
    /\ RequesterKnown
    /\ LabKnown
    /\ ~ RequesterAssociated
    /\ \E p \in NewPendingUsers : p.approval_key # None

\* C18: a request of a known requester for a known lab the requester is
\* already associated with creates no PendingUser, sends exactly one
\* notification, the one of an existing account, and leaves every row as it
\* was.
C18_AssociatedRequesterReminded ==
    ( Decided /\ RequesterKnown /\ LabKnown /\ RequesterAssociated ) =>
        /\ NewPendingUsers = {}
        /\ db = proc.db
        /\ OnlyKind("inform_user_of_existing_account")

C18_Witness ==
    /\ Decided
    /\ ~ RequestIsByPI
    /\ RequesterKnown
    /\ LabKnown
    /\ RequesterAssociated
    /\ proc.info["EMAIL"] # proc.info["PI_EMAIL"]
    /\ BagCardinality(NewMail) = 1

\* C19: a request by a PI whose email already has a ResearchGroup sends
\* exactly one notification, the one of an existing account, creates no
\* PendingUser and changes nothing else, whether or not the requester's
\* base user exists.
C19_KnownPIReminded ==
    ( Decided /\ RequestIsByPI /\ LabKnown ) =>
        /\ NewPendingUsers = {}
        /\ db = proc.db
        /\ nextKey = proc.nextKey
        /\ lastExc = "none"
        /\ OnlyKind("inform_user_of_existing_account")

\* the requester of the decided request has no base user
C19_Witness ==
    /\ Decided
    /\ RequestIsByPI
    /\ LabKnown
    /\ ~ RequesterKnown
    /\ BagCardinality(NewMail) = 1

\* C20: in both duplicate outcomes (a PI's request for a known lab; a known
\* requester already associated with the known lab) the notification of the
\* existing account goes to the EMAIL of the request.
C20_DuplicateNoticeToRequester ==
    ( Decided /\ LabKnown /\ ( RequestIsByPI \/ ( RequesterKnown /\ RequesterAssociated ) ) ) =>
        Mailed("inform_user_of_existing_account", proc.info["EMAIL"]) = 1

\* the pair of the last request is not confirmed: the lab of a PI's own
\* request is not known, the requester of another request is not associated
Unconfirmed == ~ ( LabKnown /\ ( RequestIsByPI \/ ( RequesterKnown /\ RequesterAssociated ) ) )

\* C21: a request that repeats the request before it, for a pair that is
\* not confirmed, adds exactly one PendingUser as the first did and sends
\* the same notifications again, one more of each kind; neither request
\* adds or changes a User, a CnapUser or a ResearchGroup.
C21_RepeatsNotDeduplicated ==
    [][ ( Decided /\ Unconfirmed /\ proc'.pc = "decided" /\ proc'.info = proc.info
          /\ hist'.requests = hist.requests + 1 ) =>
          /\ Cardinality(db.pendingUsers) = Cardinality(proc.db.pendingUsers) + 1
          /\ Cardinality(db'.pendingUsers) = Cardinality(db.pendingUsers) + 1
          /\ db.pendingUsers \subseteq db'.pendingUsers
          /\ \A p \in db'.pendingUsers \ db.pendingUsers : p.info_json = proc.info
          /\ BagCardinality(NewMail) >= 1
          /\ sent' (-) sent = NewMail
          /\ [ db' EXCEPT !.pendingUsers = {} ] = [ proc.db EXCEPT !.pendingUsers = {} ]
          /\ lastExc' = "none" ]_vars

\* the second of two equal requests for a known lab has been decided: two
\* PendingUsers of the request wait, and the PI was asked once for each
C21_Witness ==
    /\ Decided
    /\ Unconfirmed
    /\ LabKnown
    /\ hist.requests = 2
    /\ Cardinality(NewPendingUsers) = 1
    /\ Cardinality({ p \in db.pendingUsers :
                       p.info_json = proc.info /\ p.pk >= NextPk(proc.db.pendingUsers) - 1 }) = 2
    /\ CopiesIn([ kind |-> "send_approval_email_to_pi", to |-> proc.info["PI_EMAIL"],
                  pi |-> proc.info["PI_EMAIL"] ], sent) >= 2

(***************************************************************************)
(* The PI approvals of the requests that wait, after earlier requests have *)
(* been settled.                                                           *)
(***************************************************************************)
\* one more request has been handled and, where the lab is not known,
\* approved by the staff
Waiting(ws) == { [ Prepared(w, i) EXCEPT !.exc = "none" ] : w \in ws, i \in AccountInfos }

JoinInit ==
    /\ \E w \in Waiting(Histories) :
         /\ db = w.db
         /\ sent = w.sent
         /\ nextKey = w.nextKey
    /\ cnap = {}
    /\ lastExc = "none"
    /\ hist = NoHist
    /\ mailbox = {}
    /\ proc = Idle

JoinNext == PIApproval

SpecJoin == JoinInit /\ [][JoinNext]_vars

\* the requester of p has a base User
HasUser(d, e) == \E u \in d.users : u.email = e

\* C24 as stated: the approval of a PendingUser whose requester has a base
\* User and is not yet in the lab of the PI adds no base User and exactly
\* one CnapUser, whether the lab is known or not.
C24_OneCnapUserPerJoin ==
    [][ \A p \in db.pendingUsers :
          ( IsPIApprovalOf(p) /\ ~ p.is_pi /\ HasUser(db, p.info_json["EMAIL"])
            /\ ~ Associated(db, p.info_json["EMAIL"], p.info_json["PI_EMAIL"]) ) =>
              /\ db'.users = db.users
              /\ Cardinality(db'.cnapUsers) = Cardinality(db.cnapUsers) + 1 ]_vars

\* C24: the approval of a PendingUser that is not the PI's own leaves the
\* base User of the requester's address as it is where there is one, and
\* creates it where there is none and the approval returns; no address has
\* two base Users; where the requester has a base User, the lab is known
\* and the requester is not in it, no base User is added and exactly one
\* CnapUser is, that of the requester and the lab.
C24_RequesterReused ==
    [][ /\ \A p \in db.pendingUsers :
             ( IsPIApprovalOf(p) /\ ~ p.is_pi ) =>
                 LET e == p.info_json["EMAIL"]
                     pi == p.info_json["PI_EMAIL"]
                 IN /\ HasUser(db, e) =>
                         { u \in db'.users : u.email = e } = { u \in db.users : u.email = e }
                    /\ ( ~ HasUser(db, e) /\ lastExc' = "none" ) =>
                         Cardinality({ u \in db'.users : u.email = e }) = 1
                    /\ ( HasUser(db, e) /\ check_for_pi_account(World, p.info_json) # None
                         /\ ~ Associated(db, e, pi) ) =>
                         /\ db'.users = db.users
                         /\ db.cnapUsers \subseteq db'.cnapUsers
                         /\ Cardinality(db'.cnapUsers) = Cardinality(db.cnapUsers) + 1
                         /\ Associated(db', e, pi)
                         /\ lastExc' = "none"
        /\ \A u1, u2 \in db'.users : u1.email = u2.email => u1 = u2 ]_vars

\* a requester with a base User from another lab has been approved for a
\* lab that was known, and has one association with each
C24_Witness ==
    \E p \in db.pendingUsers, u \in db.users, g1, g2 \in db.groups :
        /\ ~ p.is_pi
        /\ PIApprovalsOf(p) = 1
        /\ hist.piRuns = 1
        /\ u.email = p.info_json["EMAIL"]
        /\ g1.pi_email = p.info_json["PI_EMAIL"]
        /\ g2.pk # g1.pk
        /\ Cardinality(AssociationsOf(u.pk, g1.pk)) = 1
        /\ Cardinality(AssociationsOf(u.pk, g2.pk)) = 1
        /\ Cardinality(db.users) = 2

(***************************************************************************)
(* One pipeline request against a shop in any of its states: the request,  *)
(* the answer the CNAP server would give and the state the request met are *)
(* kept, so that the effect of the request can be read off.                *)
(***************************************************************************)
OrderInit ==
    /\ \E a \in { None } \cup 0..MaxAmount, sums \in { {} } \cup { { x } : x \in 0..MaxAmount },
          limited \in BOOLEAN, q \in 0..MaxStock, unit \in 1..2 :
         /\ ~ limited => q = 0
         /\ db = ShopDb(a, sums, limited, IF limited THEN q ELSE None, unit)
    /\ sent = EmptyBag
    /\ nextKey = 1
    /\ cnap = {}
    /\ lastExc = "none"
    /\ hist = NoHist
    /\ mailbox = {}
    /\ proc = Idle

\* process_emails hands a parsed pipeline request to the business logic and
\* reports what it raises
PlaceOrder ==
    /\ proc.pc = "idle"
    /\ \E info_dict \in PipelineInfos, status \in { 200, 500 } :
         /\ \E r \in { handle_pipeline_request_email(World, info_dict, status) } :
              Commit(IF r.exc = "none" THEN r
                     ELSE [ handle_exception([ r EXCEPT !.exc = "none" ]) EXCEPT !.exc = r.exc ])
         /\ proc' = [ pc |-> "decided", info |-> info_dict, status |-> status,
                      db |-> db, sent |-> sent, nextKey |-> nextKey ]
    /\ UNCHANGED <<hist, mailbox>>

OrderNext == PlaceOrder

SpecOrder == OrderInit /\ [][OrderNext]_vars

\* the notifications of a kind that the request caused
Caused(kind) ==
    BagCardinality([ m \in { x \in BagToSet(NewMail) : x.kind = kind } |-> NewMail[m] ])

NewOrders == db.orders \ proc.db.orders
NewPurchases == db.purchases \ proc.db.purchases

\* C11: when the CNAP server answers the project creation of a new Order
\* with a non-success status, the server has been asked and has given that
\* answer, the admins are told, the Purchase and the Order are kept and the
\* Order is not filled.
C11_DownstreamFailureReported ==
    ( Decided /\ proc.status # 200 ) =>
        \A o \in NewOrders :
            /\ [ order |-> o.pk, status |-> proc.status ] \in cnap
            /\ \E u \in NewPurchases : u.pk = o.purchase
            /\ ~ o.order_filled
            /\ Caused("notify_admins") = Cardinality({ x \in db.users : x.is_staff })

\* the product of the request and what is left of it
ProductMet == ProductGet(Met, proc.info["PIPELINE"]).row
ProductLeft == CHOOSE x \in db.products : x.pk = ProductMet.pk
Ordered == int(proc.info["NUM_OF_SAMPLE"]).val

\* the request was answered with one notification of the kind to the
\* requester and with nothing else, and no row was written
TurnedAway(kind) ==
    /\ Mailed(kind, proc.info["EMAIL"]) = 1
    /\ BagCardinality(NewMail) = 1
    /\ db = proc.db
    /\ cnap = {}
    /\ lastExc = "none"

\* the request says it comes with a payment code
ClaimsPaymentCode == lower(proc.info["HAVE_ACCT_NUM"])[1] # "n"

\* C25: a pipeline request is turned away at the first check it fails, in
\* this order: no base User of the requester's address, no ResearchGroup of
\* the PI's address, no CnapUser of the two, and (where a payment code is
\* claimed) no Payment of the code.  Each time the requester gets exactly
\* one notification, that of the failed check, nothing else is sent and no
\* Budget, Product, Purchase, Order or other row is written.
C25_TurnedAwayAtFirstFailure ==
    Decided =>
        IF ~ HasUser(proc.db, proc.info["EMAIL"])
        THEN TurnedAway("ask_requester_to_register_first")
        ELSE IF check_for_pi_account(Met, proc.info) = None
        THEN TurnedAway("ask_pipeline_requester_to_register_lab")
        ELSE IF ~ Associated(proc.db, proc.info["EMAIL"], proc.info["PI_EMAIL"])
        THEN TurnedAway("ask_requester_to_associate_with_pi_first")
        ELSE ( ClaimsPaymentCode /\ \A x \in proc.db.payments : x.code # proc.info["ACCT_NUM"] ) =>
                 TurnedAway("ask_user_to_resubmit_payment_info")

\* a member of a known lab has claimed a payment code that is not known
C25_Witness ==
    /\ Decided
    /\ Associated(proc.db, proc.info["EMAIL"], proc.info["PI_EMAIL"])
    /\ ClaimsPaymentCode
    /\ proc.info["ACCT_NUM"] = "typo"
    /\ proc.info["PIPELINE"] = PIPELINE_NAME
    /\ Mailed("ask_user_to_resubmit_payment_info", proc.info["EMAIL"]) = 1

\* the product of the request exists and, where its quantity is limited,
\* covers the quantity ordered
ProductAvailable ==
    \E x \in proc.db.products :
        /\ x.name = proc.info["PIPELINE"]
        /\ x.is_quantity_limited => int(proc.info["NUM_OF_SAMPLE"]).val <= x.quantity

\* the quantity ordered exceeds what is left of the limited product
ProductShort ==
    \E x \in proc.db.products :
        /\ x.name = proc.info["PIPELINE"]
        /\ x.is_quantity_limited
        /\ int(proc.info["NUM_OF_SAMPLE"]).val > x.quantity

\* C26: for a request without payment code of a requester in the lab of the
\* PI, an inventory shortfall is told to the requester and to the staff
\* once each; the quote to the requester and the notice to the staff that a
\* payment method is still needed are sent once each where the product
\* exists and the quantity is available, and not at all where the product
\* is unknown or short.
C26_QuoteOnlyWhenAvailable ==
    ( Decided /\ Associated(proc.db, proc.info["EMAIL"], proc.info["PI_EMAIL"])
      /\ ~ ClaimsPaymentCode ) =>
        /\ ProductShort =>
             /\ Caused("send_inventory_alert_to_requester") = 1
             /\ Caused("send_inventory_alert_to_qbrc") = 1
        /\ Caused("handle_no_payment_number") = ( IF ProductAvailable THEN 1 ELSE 0 )
        /\ Caused("inform_qbrc_of_request_without_payment_number") =
             ( IF ProductAvailable THEN 1 ELSE 0 )
        /\ db = proc.db

\* the request gets as far as the lookup of its product
ReachesProductLookup ==
    /\ Associated(proc.db, proc.info["EMAIL"], proc.info["PI_EMAIL"])
    /\ ClaimsPaymentCode => \E x \in proc.db.payments : x.code = proc.info["ACCT_NUM"]

\* C27: a request that names no Product of the shop, with a payment code
\* or without, sends the staff the notice of a bad pipeline request exactly
\* once and the requester one notice of the failure (the rejection of the
\* order where a code was given, the general alert where none was), and
\* writes no row: no Purchase, no Order, no Budget, no Product.
C27_UnknownProductReported ==
    ( Decided /\ ReachesProductLookup
      /\ \A x \in proc.db.products : x.name # proc.info["PIPELINE"] ) =>
        /\ Caused("inform_qbrc_of_bad_pipeline_request") = 1
        /\ Mailed("inform_qbrc_of_bad_pipeline_request", QBRC_EMAIL) = 1
        /\ Mailed(IF ClaimsPaymentCode THEN "inform_user_of_invalid_order"
                  ELSE "general_alert_to_requester", proc.info["EMAIL"]) = 1
        /\ Caused("inform_user_of_invalid_order") + Caused("general_alert_to_requester") = 1
        /\ db = proc.db
        /\ lastExc = "none"

\* a request with a payment code that resolves has named an unknown product
C27_Witness ==
    /\ Decided
    /\ ReachesProductLookup
    /\ ClaimsPaymentCode
    /\ proc.info["PIPELINE"] = "unknown"
    /\ Mailed("inform_user_of_invalid_order", proc.info["EMAIL"]) = 1
    /\ proc.db.budgets = {}

\* the Payment of the code of the request, and what the validation of the
\* request against it returns
PaymentMet == PaymentGet(Met, proc.info["ACCT_NUM"]).row
ValidationAccepts ==
    check_that_purchase_is_valid_against_payment(Met, proc.info, PaymentMet).ok

\* the CnapUser of the requester in the lab of the PI
MemberMet ==
    CnapUserGet(Met, UserGet(Met, proc.info["EMAIL"]).row.pk,
                     GroupGet(Met, proc.info["PI_EMAIL"]).row.pk).row

\* C28: for a request whose payment code resolves, an accepted validation
\* is followed by exactly one new Purchase, of the requester's CnapUser,
\* and exactly one new Order, of that Purchase, the product and the
\* quantity of the request, and by no rejection; a rejected validation
\* (budget exceeded, inventory shortfall, unknown product) is followed by
\* one rejection notice to the requester and by no Purchase and no Order,
\* and the Products stay as they were.
C28_FilledOrRejected ==
    ( Decided /\ ReachesProductLookup /\ ClaimsPaymentCode ) =>
        IF ValidationAccepts
        THEN /\ Cardinality(NewPurchases) = 1
             /\ Cardinality(NewOrders) = 1
             /\ \A u \in NewPurchases : u.user = MemberMet.pk
             /\ \A o \in NewOrders :
                  /\ o.product = ProductMet.pk
                  /\ o.quantity = Ordered
                  /\ \E u \in NewPurchases : o.purchase = u.pk
             /\ proc.db.purchases \subseteq db.purchases
             /\ proc.db.orders \subseteq db.orders
             /\ Caused("inform_user_of_invalid_order") = 0
        ELSE /\ Mailed("inform_user_of_invalid_order", proc.info["EMAIL"]) = 1
             /\ db.purchases = proc.db.purchases
             /\ db.orders = proc.db.orders
             /\ db.products = proc.db.products
             /\ lastExc = "none"

\* a request of two units against a payment that covers them has left its
\* Purchase and its Order
C28_Witness ==
    /\ Decided
    /\ ReachesProductLookup
    /\ ClaimsPaymentCode
    /\ ValidationAccepts
    /\ PaymentMet.payment_amount >= 2
    /\ Ordered = 2
    /\ \E o \in NewOrders : o.quantity = 2

\* the request gets as far as the inventory check of calculate_total_purchase
ReachesInventoryCheck ==
    /\ UserGet(Met, proc.info["EMAIL"]).exc = "none"
    /\ GroupGet(Met, proc.info["PI_EMAIL"]).exc = "none"
    /\ CnapUserGet(Met, UserGet(Met, proc.info["EMAIL"]).row.pk,
                        GroupGet(Met, proc.info["PI_EMAIL"]).row.pk).exc = "none"
    /\ Len(proc.info["HAVE_ACCT_NUM"]) > 0
    /\ \/ lower(proc.info["HAVE_ACCT_NUM"])[1] = "n"
       \/ PaymentGet(Met, proc.info["ACCT_NUM"]).exc = "none"
    /\ int(proc.info["NUM_OF_SAMPLE"]).exc = "none"
    /\ ProductGet(Met, proc.info["PIPELINE"]).exc = "none"

\* C12: a request for N units of a quantity-limited Product with Q left is
\* rejected for inventory iff N > Q; fill_order takes exactly N from the
\* quantity and nothing else changes it; a Product that is not limited is
\* never rejected for inventory and keeps its quantity.
C12_InventoryBound ==
    ( Decided /\ ReachesInventoryCheck ) =>
        IF ProductMet.is_quantity_limited
        THEN /\ ( Caused("send_inventory_alert_to_qbrc") = 1 ) <=> ( Ordered > ProductMet.quantity )
             /\ ( Caused("send_inventory_alert_to_qbrc") = 0 ) <=> ( Ordered <= ProductMet.quantity )
             /\ Ordered > ProductMet.quantity => NewOrders = {}
             /\ ProductLeft.quantity =
                  ( IF NewOrders # {} THEN ProductMet.quantity - Ordered ELSE ProductMet.quantity )
        ELSE /\ Caused("send_inventory_alert_to_qbrc") = 0
             /\ Caused("send_inventory_alert_to_requester") = 0
             /\ ProductLeft = ProductMet

\* a request for all that is left has been filled
C12_Witness ==
    /\ Decided
    /\ ReachesInventoryCheck
    /\ ProductMet.is_quantity_limited
    /\ Ordered = ProductMet.quantity
    /\ Ordered >= 1
    /\ NewOrders # {}
    /\ ProductLeft.quantity = 0

\* C13: against a Payment whose amount is null, every request whose product
\* exists and is in stock is accepted, whatever it costs, and the
\* current_sum of the Budget stays as it was.
C13_OpenPaymentAccepts ==
    ( hist.check.reached /\ hist.check.amount = None ) =>
        /\ hist.check.accepted
        /\ CurrentSum(1) = hist.check.prior

\* a request that costs more than nothing has been accepted against an open
\* payment whose Budget had charges
C13_Witness ==
    /\ hist.check.reached
    /\ hist.check.amount = None
    /\ hist.check.accepted
    /\ hist.check.cost >= 2
    /\ hist.check.prior >= 1
    /\ CurrentSum(1) = hist.check.prior

(***************************************************************************)
(* One run of the polling task over a folder that holds its messages when  *)
(* the run starts; the failure of the mail server planned for the run and  *)
(* the state the run met are kept.                                         *)
(***************************************************************************)
Mailboxes ==
    UNION { { { [ uid |-> i, kind |-> f[i] ] : i \in 1..n } : f \in [ 1..n -> MessageKinds ] }
            : n \in 0..MaxMessages }

BatchInit ==
    /\ db \in { [ EmptyDb EXCEPT !.users = { [ pk |-> 1, email |-> "admin@qbrc", is_staff |-> TRUE ] } ],
                ShopDb(MaxAmount, {}, FALSE, None, 1) }
    /\ sent = EmptyBag
    /\ nextKey = 1
    /\ cnap = {}
    /\ lastExc = "none"
    /\ hist = NoHist
    /\ mailbox \in Mailboxes
    /\ proc = Idle

\* the periodic task runs once
RunBatch ==
    /\ proc.pc = "idle"
    /\ \E failure \in Failures, status \in { 200, 500 } :
         \E r \in { check_for_qualtrics_survey_results(Run(World), failure, status) } :
            /\ Commit(r.w)
            /\ hist' = [ hist EXCEPT !.polls = @ + 1, !.handled = r.handled,
                                     !.began = r.began, !.raised = r.raised ]
            /\ proc' = [ pc |-> "ran", failure |-> failure, info |-> << >>,
                         db |-> db, sent |-> sent, nextKey |-> nextKey ]
    /\ UNCHANGED mailbox

BatchNext == RunBatch

SpecBatch == BatchInit /\ [][BatchNext]_vars

Ran == proc.pc = "ran"

\* the UIDs the run handed to process_emails for a subject
BatchOf(subject) == Range(Unprocessed(Met, query_imap_server_for_ids(subject)))

\* the failure of the mail server planned for the run did happen: nothing
\* is fetched for an empty UID list
Struck ==
    CASE proc.failure = "none" -> FALSE
      [] proc.failure = "fetch accounts" -> BatchOf(ACCOUNT_REQUEST) # {}
      [] proc.failure = "fetch pipelines" -> BatchOf(PIPELINE_REQUEST) # {}
      [] OTHER -> TRUE

\* the messages of the UID lists the run has fetched
Fetched ==
    LET accounts == IF proc.failure \in { "get_mailbox", "search accounts", "fetch accounts" }
                    THEN {} ELSE BatchOf(ACCOUNT_REQUEST)
        pipelines == IF Struck THEN {} ELSE BatchOf(PIPELINE_REQUEST)
    IN { m \in mailbox : m.uid \in accounts \cup pipelines }

\* the fetched messages whose handling raised
Failing ==
    { m \in Fetched : ~ Decodable(m.kind) \/ ParseFails(m) \/ m.uid \in hist.raised }

StaffCount == Cardinality({ u \in db.users : u.is_staff })

\* C29: every message of a UID list that the run has fetched is taken up
\* once, whatever happened to the messages before it; a message that
\* decodes and parses reaches the business logic; and the administrators
\* get one report for each message whose handling raised (and one for a
\* failure of the mail server in the run), no more.
C29_FailureIsolation ==
    Ran =>
        /\ \A m \in Fetched : Count(hist.handled, m.uid) = 1
        /\ \A m \in Fetched :
             ( Decodable(m.kind) /\ ~ ParseFails(m) ) => Count(hist.began, m.uid) = 1
        /\ Caused("notify_admins") =
             StaffCount * ( Cardinality(Failing) + ( IF Struck THEN 1 ELSE 0 ) )

\* the run has taken up two account requests: the handling of the first
\* raised and was reported, the second reached the business logic
C29_Witness ==
    /\ Ran
    /\ proc.failure = "none"
    /\ \E m1, m2 \in Fetched :
         /\ m1.uid < m2.uid
         /\ Subject(m1.kind) = ACCOUNT_REQUEST
         /\ Subject(m2.kind) = ACCOUNT_REQUEST
         /\ m1 \in Failing
         /\ Count(hist.handled, m1.uid) = 1
         /\ Count(hist.began, m2.uid) = 1
         /\ m2 \notin Failing
    /\ Caused("notify_admins") = 1

\* C30: a run in which the mailbox cannot be opened (connect, login,
\* select) or a search fails handles no message after the failure: none at
\* all where the mailbox or the search for account requests failed, no
\* pipeline request where the search for pipeline requests failed; the
\* failure is reported to the administrators once, beside the reports of
\* the account requests handled before it, and the run ends with it.
C30_ServerFailureAborts ==
    ( Ran /\ proc.failure \in { "get_mailbox", "search accounts", "search pipelines" } ) =>
        /\ proc.failure \in { "get_mailbox", "search accounts" } =>
             /\ hist.handled = EmptyBag
             /\ db = proc.db
             /\ Caused("notify_admins") = StaffCount
             /\ BagCardinality(NewMail) = StaffCount
        /\ \A m \in mailbox :
             Subject(m.kind) = PIPELINE_REQUEST =>
                 Count(hist.handled, m.uid) = 0 /\ Markers(m.uid) = {}
        /\ Caused("notify_admins") = StaffCount * ( Cardinality(Failing) + 1 )
        /\ lastExc = "MailQueryException"

\* the search for pipeline requests failed after an account request had
\* been handled; the pipeline request in the folder was not touched
C30_Witness ==
    /\ Ran
    /\ proc.failure = "search pipelines"
    /\ \E m1, m2 \in mailbox :
         /\ Subject(m1.kind) = ACCOUNT_REQUEST
         /\ Count(hist.began, m1.uid) = 1
         /\ m2.kind = "pipeline"
         /\ Count(hist.handled, m2.uid) = 0
    /\ Caused("notify_admins") = 1

(***************************************************************************)
(* The parser on text.  A line of the body's text is a sequence of         *)
(* characters; parse_email_contents trims it, splits it at its first colon *)
(* and trims both parts.  The bodies are those of up to MaxLines lines out *)
(* of TextLines: lines of a required or an extraneous key with a value     *)
(* that is empty, plain, led by a blank or holds a colon itself, a line    *)
(* without a colon, a line of blanks, and a line padded with blanks.       *)
(***************************************************************************)
MaxLines == 3

RECURSIVE lstrip(_)
lstrip(s) == IF s # << >> /\ Head(s) = " " THEN lstrip(Tail(s)) ELSE s

RECURSIVE rstrip(_)
rstrip(s) == IF s # << >> /\ s[Len(s)] = " " THEN rstrip(SubSeq(s, 1, Len(s) - 1)) ELSE s

\* str.strip()
strip(s) == rstrip(lstrip(s))

\* every colon of the line separates
split_every_colon(x) ==
    LET colons == { i \in DOMAIN x : x[i] = ":" }
        last == CHOOSE i \in colons : \A j \in colons : j <= i
    IN IF colons = {} THEN << x >>
       ELSE IF Cardinality(colons) > 1 THEN << x, x, x >>
       ELSE << SubSeq(x, 1, last - 1), SubSeq(x, last + 1, Len(x)) >>

\* x.split(':', 1): the parts before and after the first colon, or the line
\* alone where it has none
split_first_colon(x) ==
    LET colons == { i \in DOMAIN x : x[i] = ":" }
        first == CHOOSE i \in colons : \A j \in colons : i <= j
    IN IF colons = {} THEN << x >>
       ELSE << SubSeq(x, 1, first - 1), SubSeq(x, first + 1, Len(x)) >>

\* a line of body_markup.text as the loop of parse_email_contents takes it:
\* << >> if it is blank, <<line>> if the unpacking of the split raises
\* ValueError, <<key, val>> otherwise
ParsedLine(x) ==
    LET parts == split_first_colon(strip(x))
    IN IF strip(x) = << >> THEN << >>
       ELSE IF Len(parts) # 2 THEN << strip(x) >>
       ELSE << strip(parts[1]), strip(parts[2]) >>

KeyTexts == { << "F" >>, << "B" >>, << "X" >> }

ValueTexts == { << >>, << "v" >>, << " ", "v" >>, << "v", ":", "w" >> }

TextLines ==
    { k \o << ":" >> \o v : k \in KeyTexts, v \in ValueTexts }
        \cup { << "v" >>, << " " >>, << " ", "F", " ", ":", "v", " " >> }

Bodies == UNION { [ 1..n -> TextLines ] : n \in 0..MaxLines }

KeySets == { {}, { << "F" >> }, { << "F" >>, << "B" >> } }

ParseInit ==
    /\ db = EmptyDb
    /\ sent = EmptyBag
    /\ nextKey = 1
    /\ cnap = {}
    /\ lastExc = "none"
    /\ hist = NoHist
    /\ mailbox = {}
    /\ \E required_keyset \in KeySets, text \in Bodies :
         proc = [ pc |-> "idle", required_keyset |-> required_keyset, text |-> text,
                  result |-> [ exc |-> "none" ] ]

\* parse_email_contents is called with the body and the required keys
Parse ==
    /\ proc.pc = "idle"
    /\ \E result \in { parse_email_contents(
                           [ body |-> TRUE,
                             lines |-> [ i \in DOMAIN proc.text |-> ParsedLine(proc.text[i]) ] ],
                           proc.required_keyset) } :
         proc' = [ proc EXCEPT !.pc = "parsed", !.result = result ]
    /\ UNCHANGED <<db, sent, nextKey, cnap, lastExc, hist, mailbox>>

ParseNext == Parse

SpecParse == ParseInit /\ [][ParseNext]_vars

Parsed == proc.pc = "parsed"

HasColon(x) == \E i \in DOMAIN x : x[i] = ":"

RECURSIVE BeforeColon(_)
BeforeColon(x) == IF Head(x) = ":" THEN << >> ELSE << Head(x) >> \o BeforeColon(Tail(x))

RECURSIVE AfterColon(_)
AfterColon(x) == IF Head(x) = ":" THEN Tail(x) ELSE AfterColon(Tail(x))

RECURSIVE Trimmed(_)
Trimmed(x) ==
    IF x = << >> THEN x
    ELSE IF x[1] = " " THEN Trimmed(SubSeq(x, 2, Len(x)))
    ELSE IF x[Len(x)] = " " THEN Trimmed(SubSeq(x, 1, Len(x) - 1))
    ELSE x

\* the lines of the body with the key k
LinesOfKey(k) ==
    { i \in DOMAIN proc.text : HasColon(proc.text[i]) /\ Trimmed(BeforeColon(proc.text[i])) = k }

Returned == proc.result.exc = "none"

\* the lines of the body that are not blank
TextOnly == { i \in DOMAIN proc.text : Trimmed(proc.text[i]) # << >> }

\* C31 as stated: where every line has a colon and every required key
\* occurs, the parser returns a mapping over exactly the required keys, the
\* value of a key being the text after the first colon of a line of that
\* key; otherwise it raises a parse failure.
C31_ValueIsTextAfterColon ==
    Parsed =>
        IF /\ \A i \in TextOnly : HasColon(proc.text[i])
           /\ \A k \in proc.required_keyset : LinesOfKey(k) # {}
        THEN /\ Returned
             /\ DOMAIN proc.result.info_dict = proc.required_keyset
             /\ \A k \in proc.required_keyset :
                  \E i \in LinesOfKey(k) :
                      proc.result.info_dict[k] = AfterColon(Trimmed(proc.text[i]))
        ELSE proc.result.exc = "MailParseException"

\* C31, amended: where every line has a colon and every required key
\* occurs, the parser returns a mapping over exactly the required keys, the
\* value of a key being the text after the first colon of the last line of
\* that key with the blanks around it removed; otherwise it raises a parse
\* failure.
C31_ParserContract ==
    Parsed =>
        IF /\ \A i \in TextOnly : HasColon(proc.text[i])
           /\ \A k \in proc.required_keyset : LinesOfKey(k) # {}
        THEN /\ Returned
             /\ DOMAIN proc.result.info_dict = proc.required_keyset
             /\ \A k \in proc.required_keyset :
                  \E i \in LinesOfKey(k) :
                      /\ \A j \in LinesOfKey(k) : j <= i
                      /\ proc.result.info_dict[k] = Trimmed(AfterColon(proc.text[i]))
        ELSE proc.result.exc = "MailParseException"

\* both required keys are returned from a body with an extraneous key, one
\* of the values being empty and the other having a colon of its own
C31_Witness ==
    /\ Parsed
    /\ Returned
    /\ proc.required_keyset = { << "F" >>, << "B" >> }
    /\ LinesOfKey(<< "X" >>) # {}
    /\ proc.result.info_dict[<< "F" >>] = << >>
    /\ proc.result.info_dict[<< "B" >>] = << "v", ":", "w" >>

(***************************************************************************)
(* Two runs of the polling task overlap (the schedule starts a run whether *)
(* or not the one before has returned).  A run searches the folder and     *)
(* keeps the UIDs without a marker, then takes the messages of that list   *)
(* one by one; the steps of the two runs interleave.  The mail server      *)
(* does not fail here.                                                     *)
(***************************************************************************)
PollRaceInit ==
    /\ db \in { [ EmptyDb EXCEPT !.users = { [ pk |-> 1, email |-> "admin@qbrc", is_staff |-> TRUE ] } ],
                ShopDb(MaxAmount, {}, FALSE, None, 1) }
    /\ sent = EmptyBag
    /\ nextKey = 1
    /\ cnap = {}
    /\ lastExc = "none"
    /\ hist = NoHist
    /\ mailbox \in Mailboxes
    /\ proc = [ k \in Workers |-> Idle ]

\* the search for a subject and the list of its UIDs that are new (lines
\* 1447-1448 for the account requests, 1452-1453 for the pipeline requests)
PR_Search(k) ==
    /\ \/ proc[k].pc = "idle"
       \/ proc[k].pc = ACCOUNT_REQUEST /\ proc[k].todo = << >>
    /\ LET subject == IF proc[k].pc = "idle" THEN ACCOUNT_REQUEST ELSE PIPELINE_REQUEST
       IN proc' = [ proc EXCEPT ![k] =
                      [ pc |-> subject,
                        todo |-> Unprocessed(World, query_imap_server_for_ids(subject)) ] ]
    /\ UNCHANGED <<db, sent, nextKey, cnap, lastExc, hist, mailbox>>

\* one pass of the loop of process_emails (lines 1357-1370)
PR_Handle(k) ==
    /\ proc[k].pc \in { ACCOUNT_REQUEST, PIPELINE_REQUEST }
    /\ proc[k].todo # << >>
    /\ \E status \in { 200, 500 } :
         \E r \in { handle_message(Run(World), MessageOf(Head(proc[k].todo)), proc[k].pc, status) } :
            /\ Commit(r.w)
            /\ hist' = [ hist EXCEPT !.handled = r.handled, !.began = r.began, !.raised = r.raised ]
    /\ proc' = [ proc EXCEPT ![k] = [ @ EXCEPT !.todo = Tail(@) ] ]
    /\ UNCHANGED mailbox

\* the run returns after its pipeline requests
PR_Return(k) ==
    /\ proc[k].pc = PIPELINE_REQUEST
    /\ proc[k].todo = << >>
    /\ proc' = [ proc EXCEPT ![k] = [ pc |-> "done" ] ]
    /\ UNCHANGED <<db, sent, nextKey, cnap, lastExc, hist, mailbox>>

PollRaceNext == \E k \in Workers : PR_Search(k) \/ PR_Handle(k) \/ PR_Return(k)

SpecPollRace == PollRaceInit /\ [][PollRaceNext]_vars

\* C32: when two polling runs overlap, no message is handled twice: a UID
\* that one run has selected as new is not taken up by the other run as
\* well.
C32_NoMessageHandledTwice ==
    \A m \in mailbox : Count(hist.handled, m.uid) <= 1

(***************************************************************************)
(* The approval endpoints.  A view answers the request and, where it       *)
(* accepts it, starts its task; the task is taken with the request that    *)
(* started it.  The caller, the primary key and the token of the link are  *)
(* whatever the request carries: the caller may or may not be staff, the   *)
(* key may be one of no PendingUser, the token one that was issued and     *)
(* replaced, or never issued.  The last request and its answer are kept.   *)
(***************************************************************************)
NoCall == [ view |-> "none", is_staff |-> FALSE, arg |-> None, response |-> "none", started |-> None ]

Answer(w, response, started) == [ w |-> w, response |-> response, started |-> started ]

\* only the lookup is made: any caller may approve
StaffApprovalView_post_by_anyone(w, is_staff, pending_user_pk) ==
    IF Get({ x \in w.db.pendingUsers : x.pk = pending_user_pk }).exc = "DoesNotExist"
    THEN Answer(w, "bad-request", None)
    ELSE Answer(staff_approve_pending_user(w, pending_user_pk), "ok", pending_user_pk)

\* StaffApprovalView.post: the world it leaves, the response, and the pk
\* its task was started for (None if none was)
StaffApprovalView_post(w, is_staff, pending_user_pk) ==
    IF ~ is_staff THEN Answer(w, "forbidden", None)
    ELSE IF Get({ x \in w.db.pendingUsers : x.pk = pending_user_pk }).exc = "DoesNotExist"
         THEN Answer(w, "bad-request", None)
    ELSE Answer(staff_approve_pending_user(w, pending_user_pk), "ok", pending_user_pk)

\* PIApprovalView.get; a lookup that raises anything but DoesNotExist is
\* not caught
PIApprovalView_get(w, approval_key) ==
    LET p == Get({ x \in w.db.pendingUsers : x.approval_key = approval_key })
    IN IF p.exc = "DoesNotExist" THEN Answer(w, "bad-request", None)
       ELSE IF p.exc # "none" THEN Answer(Raise(w, p.exc), "server-error", None)
       ELSE Answer(pi_approve_pending_user(w, p.row.pk), "ok", p.row.pk)

EndpointInit ==
    /\ \E staff \in SUBSET AdminEmails :
         db = [ EmptyDb EXCEPT !.users =
                  { [ pk |-> 1, email |-> e, is_staff |-> TRUE ] : e \in staff } ]
    /\ sent = EmptyBag
    /\ nextKey = 1
    /\ cnap = {}
    /\ lastExc = "none"
    /\ hist = NoHist
    /\ mailbox = {}
    /\ proc = NoCall

\* the requests made here: a PI registers a lab, someone asks to join that
\* lab, and the PI asks to join the lab of that someone
EndpointInfos ==
    { AccountInfo("pi@lab", YES, "pi@lab", "HSPH"),
      AccountInfo("post@lab", NO, "pi@lab", ""),
      AccountInfo("pi@lab", NO, "post@lab", "") }

\* a parsed account request reaches the business logic
SubmitRequest ==
    /\ hist.requests < MaxRequests
    /\ \E info_dict \in EndpointInfos :
         Commit(handle_account_request_email(World, info_dict))
    /\ hist' = [ hist EXCEPT !.requests = @ + 1 ]
    /\ UNCHANGED <<mailbox, proc>>

\* a form is posted to accounts/staff-approve/<pk>
PostStaffApproval ==
    /\ hist.staffRuns < MaxStaffApprovals
    /\ \E is_staff \in BOOLEAN, pk \in 1..MaxRequests + 1 :
         \E a \in { StaffApprovalView_post(World, is_staff, pk) } :
            /\ Commit(a.w)
            /\ proc' = [ view |-> "staff", is_staff |-> is_staff, arg |-> pk,
                         response |-> a.response, started |-> a.started ]
    /\ hist' = [ hist EXCEPT !.staffRuns = @ + 1 ]
    /\ UNCHANGED mailbox

\* a link accounts/approve/<approval_key> is followed; the tokens tried are
\* those issued so far and one that was not
GetPIApproval ==
    /\ hist.piRuns < MaxPIApprovals
    /\ \E approval_key \in 1..nextKey :
         \E a \in { PIApprovalView_get(World, approval_key) } :
            /\ Commit(a.w)
            /\ proc' = [ view |-> "pi", is_staff |-> FALSE, arg |-> approval_key,
                         response |-> a.response, started |-> a.started ]
    /\ hist' = [ hist EXCEPT !.piRuns = @ + 1 ]
    /\ UNCHANGED mailbox

EndpointNext == SubmitRequest \/ PostStaffApproval \/ GetPIApproval

SpecEndpoints == EndpointInit /\ [][EndpointNext]_vars

\* the rows that make up accounts
Accounts(d) == << d.users, d.groups, d.orgs, d.fcs, d.cnapUsers >>

\* the step is a request to the staff endpoint, to the PI endpoint
IsStaffCall == hist'.staffRuns = hist.staffRuns + 1
IsPICall == hist'.piRuns = hist.piRuns + 1

\* C35: the handling of an account request and the staff approval create
\* no User, ResearchGroup, Organization, FinancialCoordinator or CnapUser;
\* such rows change only in a step in which the PI endpoint has started
\* pi_approve_pending_user, and it starts it only for the PendingUser whose
\* token is not null and is the token of the link.
C35_AccountsOnlyAfterPIConfirmation ==
    [][ /\ Accounts(db') # Accounts(db) => ( IsPICall /\ proc'.started # None )
        /\ ( IsPICall /\ proc'.started # None ) =>
             \E p \in db.pendingUsers :
                 /\ p.pk = proc'.started
                 /\ p.approval_key # None
                 /\ p.approval_key = proc'.arg
                 /\ ResolvesTo(db, proc'.arg) = { p } ]_vars

\* the PI has followed the link of a request the staff had approved, and
\* the lab and its accounts are there
C35_Witness ==
    /\ proc.view = "pi"
    /\ proc.started # None
    /\ hist.staffRuns >= 1
    /\ db.groups # {}
    /\ db.cnapUsers # {}
    /\ \E p \in db.pendingUsers : p.pk = proc.started /\ p.approval_key = proc.arg

\* the step leaves the database, the outbox and the salt counter alone
NothingDone == db' = db /\ sent' = sent /\ nextKey' = nextKey /\ cnap' = cnap

\* C39: a staff approval of a PendingUser gives it a token that no
\* PendingUser had; the new token resolves to it and the token it had
\* resolves to nothing any more.  A PI link with a token that resolves to
\* nothing is answered bad-request, and pi_approve_pending_user is not
\* started.
C39_StaleTokenRejected ==
    [][ /\ \A p \in db.pendingUsers :
             ( IsStaffCall /\ proc'.started = p.pk ) =>
                 \E q \in db'.pendingUsers :
                     /\ q = [ p EXCEPT !.approval_key = q.approval_key ]
                     /\ q.approval_key # None
                     /\ ResolvesTo(db, q.approval_key) = {}
                     /\ ResolvesTo(db', q.approval_key) = { q }
                     /\ p.approval_key # None => ResolvesTo(db', p.approval_key) = {}
        /\ ( IsPICall /\ ResolvesTo(db, proc'.arg) = {} ) =>
             /\ proc'.response = "bad-request"
             /\ proc'.started = None
             /\ NothingDone ]_vars

\* the only PendingUser was approved by the staff twice; the link with its
\* first token has been followed and answered bad-request
C39_Witness ==
    /\ hist.staffRuns = 2
    /\ nextKey = 3
    /\ proc.view = "pi"
    /\ proc.arg = 1
    /\ proc.response = "bad-request"
    /\ \E p \in db.pendingUsers : db.pendingUsers = { p } /\ p.approval_key = 2
    /\ db.groups = {}

\* C40: a request to the staff endpoint by a caller who is not staff is
\* answered forbidden; a request to it for a primary key of no PendingUser,
\* and a request to the PI endpoint with a token of no PendingUser, are
\* answered bad-request; in each case no task is started and nothing is
\* written or sent.
C40_InvalidRequestsRejected ==
    [][ /\ ( IsStaffCall /\ ~ proc'.is_staff ) =>
             proc'.response = "forbidden" /\ proc'.started = None /\ NothingDone
        /\ ( IsStaffCall /\ proc'.is_staff /\ \A p \in db.pendingUsers : p.pk # proc'.arg ) =>
             proc'.response = "bad-request" /\ proc'.started = None /\ NothingDone
        /\ ( IsPICall /\ \A p \in db.pendingUsers : p.approval_key # proc'.arg ) =>
             proc'.response = "bad-request" /\ proc'.started = None /\ NothingDone
        /\ ( ( IsStaffCall \/ IsPICall ) /\ proc'.started = None ) => NothingDone ]_vars

\* a caller who is not staff has asked for the approval of a PendingUser
\* that is there, and was answered forbidden; the PendingUser has no token
C40_Witness ==
    /\ proc.view = "staff"
    /\ ~ proc.is_staff
    /\ proc.response = "forbidden"
    /\ \E p \in db.pendingUsers : p.pk = proc.arg /\ p.approval_key = None
    /\ hist.staffRuns = 1

====
